---- MODULE Spec2Model ----
(***************************************************************************)
(* Lifecycle state machine and settlement protocol of one pooled-wager     *)
(* escrow instance (Anchor program "ml").  One Pool record, its            *)
(* Participants registry and the pool's token account (the escrow) are     *)
(* the state; every instruction handler is one atomic action.  A handler   *)
(* that returns an error aborts the transaction and leaves no trace, so    *)
(* each handler is split into <name>_result (the first failing check, in   *)
(* source order, or "Ok") and the action proper, enabled when the result   *)
(* is "Ok".                                                                *)
(***************************************************************************)
EXTENDS Integers, Sequences, FiniteSets, TLC

VARIABLES
    pool,           \* state.rs Pool (the fields the handlers read or write)
    participants,   \* state.rs Participants: [list, count]
    pool_token,     \* amount held by the pool's token account (the escrow)
    reclaimed,      \* TRUE once claim_rent has closed pool and participants
    now,            \* Clock.unix_timestamp
    slot,           \* Clock.slot
    randomness_data,\* the Switchboard randomness accounts, by key
    ledger,         \* history: value moved in / out / burned by the handlers
    received,       \* history: tokens each wallet received from the escrow
    last,           \* history: the last successful instruction
    call            \* the transaction in flight: its frames and its outcome

vars == << pool, participants, pool_token, reclaimed, now, slot,
           randomness_data, ledger, received, last, call >>

-----------------------------------------------------------------------------
(* Program constants: constants.rs *)

MAX_PARTICIPANTS == 20
MAX_FEE_BPS == 10000
ZERO_PUBKEY == "0"
MIN_BET_TOKENS == 20
MIN_DONATE_TOKENS == 20
MIN_LOCK_DURATION == 60
MAX_LOCK_DURATION == 43200
POOL_OPEN_DURATION == 604800
SWEEP_DELAY == 7 * 86400
REASON_CANCELLED == 5
REASON_ADMIN_CLOSED == 6
REASON_EXPIRED == 1
REASON_PAUSED == 2
REASON_MAX_REACHED == 4
EMERGENCY_DELAY == 86400
PAYOUT_TIMEOUT == 7 * 86400
FORFEIT_DELAY == 30 * 86400

\* select_winner.rs:45 and request_randomness.rs:99 (literal 3000)
RANDOMNESS_MAX_AGE_SLOTS == 3000
\* request_randomness.rs:90 (literal 300)
SEED_SLOT_WINDOW == 300
\* force_expire.rs:19
FORCE_EXPIRE_MIN_ELAPSED == 300
\* payout_winner.rs:164
FEE_DENOMINATOR == 10000
\* claim_refund.rs:181 (bet / 20)
CREATOR_PENALTY_DIVISOR == 20

\* Number of values of a u16, the type of the three fee rates.
U16 == 65536

\* Pubkey::default() and the System Program id are the same all-zero key.
DEFAULT_PUBKEY == ZERO_PUBKEY
SYSTEM_PROGRAM_ID == ZERO_PUBKEY

-----------------------------------------------------------------------------
(* Bounds of the model *)

\* Identities that sign transactions.  "A" creates the pool; "D" and "T"
\* are the usual operator and treasury wallets, "B" an ordinary user.
Pubkeys == {"A", "B", "D", "T"}
Creators == {"A"}
DevWallets == {"A", "D"}
TreasuryWallets == {"T"}
Joiners == {"A", "B", "D"}

\* mint.decimals of the asset the pool is denominated in, and the
\* minimum stake and donation in native units (create_pool.rs:115-117,
\* donate.rs:85).
Decimals == 6
MinNative == MIN_BET_TOKENS * 10 ^ Decimals
MinDonateNative == MIN_DONATE_TOKENS * 10 ^ Decimals

\* Instruction arguments that are tried.
MaxParticipantsArgs == {1, 3, 21}
LockDurationArgs == {59, 60, 43201}
NewLockDurationArgs == {59, 60, 120, 43201}
AmountArgs == {MinNative - 1, MinNative}
JoinAmountArgs == {MinNative, MinNative + 1}
DonateArgs == {MinDonateNative - 1, MinDonateNative + 9999}
FeeArgs == { <<500, 100, 200>>, <<5000, 5000, 1>> }
AllowMockArgs == {TRUE, FALSE}

\* Whether the program is built with arithmetic overflow checks.
OverflowChecks == {TRUE, FALSE}
Salt == 7

\* Number of successful donate calls, of successful force_expire calls and
\* of direct token transfers into the escrow that bypass the program, in
\* one behaviour.
MaxDonations == 1
MaxForceExpires == 1
MaxSpoofed == 1
SpoofAmount == 1

\* force_expire checks no status; the calls explored are those made while
\* the pool is in one of these statuses.
ForceExpireStatuses == {"Open"}

\* Randomness accounts: "R1" and "R2" are owned by Switchboard, "X" is an
\* account owned by some other program; the all-zero key is the mock
\* reference.  "R1" is committed and revealed while the pool waits for it;
\* "R2" is an older account that was committed and revealed long before
\* the pool was created.
RandAccounts == {"R1", "R2"}
FreshRandAccounts == {"R1"}
RandomnessArgs == {ZERO_PUBKEY, "R1", "R2", "X"}
OracleValues == {0, 1, 2}

Genesis == 1700000000
GenesisSlot == 250000000

-----------------------------------------------------------------------------
(* Helpers *)

PoolStatus == { "Open", "Locked", "Unlocked", "RandomnessCommitted",
                "RandomnessRevealed", "WinnerSelected", "Ended",
                "Cancelled", "Closed" }

PubkeyBytes(k) ==
    CASE k = "A" -> 11 [] k = "B" -> 12 [] k = "D" -> 13 [] k = "T" -> 14
      [] k = "R1" -> 21 [] k = "X" -> 22 [] k = "R2" -> 23 [] OTHER -> 0

\* SHA-256 is modelled as a fixed mixing function of its input words; only
\* its being a function of every input word is relied upon.
RECURSIVE Sha256(_)
Sha256(words) ==
    IF words = << >> THEN 5381
    ELSE (Sha256(Tail(words)) * 33 + (Head(words) % 65521) + 17) % 65521

\* u64::from_le_bytes(hash[0..8]) and u128::from_le_bytes(hash[..16])
HashPrefix(words) == Sha256(words)

\* The fingerprint over the configuration fields, in the order the
\* handlers feed them to the hasher.  The digest is kept as the tuple of
\* its inputs (a collision-free hash).
ConfigHash(p) ==
    << p.salt, p.max_participants, p.lock_duration, p.amount, p.dev_wallet,
       p.dev_fee_bps, p.burn_fee_bps, p.treasury_wallet, p.treasury_fee_bps,
       p.start_time, p.duration >>

ZeroList == [i \in 0 .. (MAX_PARTICIPANTS - 1) |-> ZERO_PUBKEY]

\* The share obtained by dividing before multiplying.
FeeShare_divide_first(total, bps) == (total \div FEE_DENOMINATOR) * bps

\* total.checked_mul(bps)? / 10000.  The product is formed piecewise so
\* that it stays inside the model checker's integers; the result is
\* floor(total * bps / 10000).  total * bps is far below 2^64 for every
\* total of this model, so checked_mul never reports Overflow here.
FeeShare(total, bps) ==
    (total \div FEE_DENOMINATOR) * bps
        + ((total % FEE_DENOMINATOR) * bps) \div FEE_DENOMINATOR

Loaded == pool.initialized /\ ~reclaimed

NoPool ==
    [ initialized |-> FALSE, pool_id |-> 0, salt |-> 0, creator |-> ZERO_PUBKEY,
      start_time |-> 0, duration |-> 0, expire_time |-> 0, end_time |-> 0,
      unlock_time |-> 0, close_time |-> 0, max_participants |-> 0,
      lock_duration |-> 0, lock_start_time |-> 0, amount |-> 0,
      total_amount |-> 0, total_volume |-> 0, total_joins |-> 0,
      total_donations |-> 0, dev_wallet |-> ZERO_PUBKEY, dev_fee_bps |-> 0,
      burn_fee_bps |-> 0, treasury_wallet |-> ZERO_PUBKEY,
      treasury_fee_bps |-> 0, randomness |-> 0,
      randomness_account |-> ZERO_PUBKEY, status |-> "Open", paused |-> FALSE,
      config_hash |-> << >>, allow_mock |-> FALSE,
      randomness_commit_slot |-> 0, status_reason |-> 0,
      winner |-> ZERO_PUBKEY, processing |-> FALSE ]

\* No transaction in flight and none completed yet.
NoCall ==
    [ stack |-> << >>,
      result |-> [op |-> "none", user |-> ZERO_PUBKEY, err |-> "none"] ]

NoRandomness == [seed_slot |-> 0, reveal_slot |-> 0, value |-> 0]

\* A randomness account revealed more than SEED_SLOT_WINDOW slots ago.
OldRandomness ==
    [ seed_slot |-> GenesisSlot - SEED_SLOT_WINDOW - 1,
      reveal_slot |-> GenesisSlot - SEED_SLOT_WINDOW, value |-> 1 ]

Init ==
    /\ pool = NoPool
    /\ participants = [list |-> ZeroList, count |-> 0]
    /\ pool_token = 0
    /\ reclaimed = FALSE
    /\ now = Genesis
    /\ slot = GenesisSlot
    /\ randomness_data =
          [r \in RandAccounts |->
              IF r \in FreshRandAccounts THEN NoRandomness ELSE OldRandomness]
    /\ ledger = [in |-> 0, out |-> 0, burned |-> 0, spoofed |-> 0,
                 force_expires |-> 0, requests |-> 0]
    /\ received = [k \in Pubkeys |-> 0]
    /\ last = "none"
    /\ call = NoCall

\* An instruction that has returned Ok(()) as a transaction of its own.
Done(op, user) == last' = op /\ UNCHANGED call

-----------------------------------------------------------------------------
(* create_pool *)

\* dev_fee_bps + burn_fee_bps + treasury_fee_bps on u16 operands
\* (create_pool.rs:80).  A sum of 2^16 or more aborts the instruction when
\* the program is built with overflow checks and wraps when it is built
\* without them; the build profile decides, so both are outcomes.
fee_sum_overflows(fees) == fees[1] + fees[2] + fees[3] >= U16
fee_sum(fees) == (fees[1] + fees[2] + fees[3]) % U16

create_pool_result(user, max_participants, lock_duration, amount, fees, overflow_checks) ==
    IF reclaimed THEN "AccountAlreadyInUse"
    ELSE IF pool.initialized THEN "AlreadyInitialized"
    ELSE IF overflow_checks /\ fee_sum_overflows(fees) THEN "ArithmeticOverflowPanic"
    ELSE IF ~(fee_sum(fees) <= MAX_FEE_BPS) THEN "ExcessiveFees"
    ELSE IF Decimals \notin {6, 8, 9, 10} THEN "InvalidDecimals"
    ELSE IF ~(max_participants <= MAX_PARTICIPANTS) THEN "TooManyParticipants"
    ELSE IF ~(max_participants >= 2) THEN "InvalidParticipantRange"
    ELSE IF ~(amount >= MinNative) THEN "InvalidAmount"
    ELSE IF ~(lock_duration >= MIN_LOCK_DURATION
              /\ lock_duration <= MAX_LOCK_DURATION) THEN "InvalidLockDuration"
    ELSE "Ok"

create_pool(user, max_participants, lock_duration, amount, dev_wallet, fees, treasury_wallet, allow_mock, overflow_checks) ==
    /\ create_pool_result(user, max_participants, lock_duration, amount, fees, overflow_checks) = "Ok"
    /\ LET p0 == [ NoPool EXCEPT
                     !.pool_id = HashPrefix(<<Salt, slot % 65521, PubkeyBytes(user)>>),
                     !.salt = Salt,
                     !.creator = user,
                     !.start_time = now,
                     !.duration = POOL_OPEN_DURATION,
                     !.expire_time = now + POOL_OPEN_DURATION,
                     !.max_participants = max_participants,
                     !.lock_duration = lock_duration,
                     !.amount = amount,
                     !.total_amount = amount,
                     !.total_volume = amount,
                     !.total_joins = 1,
                     !.dev_wallet = dev_wallet,
                     !.dev_fee_bps = fees[1],
                     !.burn_fee_bps = fees[2],
                     !.treasury_wallet = treasury_wallet,
                     !.treasury_fee_bps = fees[3],
                     !.status = "Open",
                     !.allow_mock = allow_mock,
                     !.initialized = TRUE ]
       IN pool' = [p0 EXCEPT !.config_hash = ConfigHash(p0)]
    /\ pool_token' = pool_token + amount
    /\ participants' = [list |-> [ZeroList EXCEPT ![0] = user], count |-> 1]
    /\ ledger' = [ledger EXCEPT !.in = @ + amount]
    /\ Done("create_pool", user)
    /\ UNCHANGED << reclaimed, now, slot, randomness_data, received >>

-----------------------------------------------------------------------------
(* join_pool *)

\* A membership test that looks at the first entry only.
InRegistry_first_only(user) ==
    participants.count > 0 /\ participants.list[0] = user

InRegistry(user) ==
    \E i \in 0 .. (participants.count - 1) : participants.list[i] = user

\* An amount check that accepts any stake of at least the minimum.
stake_at_least_minimum(amount) == amount >= MinNative

\* join_pool.rs:106
stake_matches(amount) == amount = pool.amount

\* A capacity test that is off by one.
exceeds_capacity(new_count) == new_count > pool.max_participants

\* join_pool.rs:197
reaches_capacity(new_count) == new_count = pool.max_participants

join_pool_result(user, amount) ==
    IF ~Loaded THEN "AccountNotInitialized"
    ELSE IF ~pool.initialized THEN "UninitializedAccount"
    ELSE IF pool.paused THEN "Paused"
    ELSE IF ~(now <= pool.start_time + pool.duration) THEN "PoolExpired"
    ELSE IF pool.status # "Open" THEN "PoolUnavailableForJoin"
    ELSE IF pool.lock_start_time # 0 THEN "JoinClosedAfterUnlock"
    ELSE IF ConfigHash(pool) # pool.config_hash THEN "ConfigMismatch"
    ELSE IF ~stake_matches(amount) THEN "InvalidAmount"
    ELSE IF ~(pool.amount >= MinNative) THEN "InvalidAmount"
    ELSE IF ~(participants.count + 1 <= pool.max_participants)
         THEN "MaxParticipantsReached"
    ELSE IF InRegistry(user) THEN "AlreadyParticipated"
    ELSE "Ok"

join_pool(user, amount) ==
    /\ join_pool_result(user, amount) = "Ok"
    /\ LET new_count == participants.count + 1
           full == reaches_capacity(new_count)
       IN /\ pool_token' = pool_token + amount
          /\ participants' =
                [ list |-> [participants.list EXCEPT ![participants.count] = user],
                  count |-> new_count ]
          /\ pool' = [ pool EXCEPT
                         !.total_amount = @ + amount,
                         !.total_volume = @ + amount,
                         !.total_joins = @ + 1,
                         !.status = IF full THEN "Locked" ELSE @,
                         !.status_reason = IF full THEN REASON_MAX_REACHED ELSE @,
                         !.lock_start_time = IF full THEN now ELSE @ ]
    /\ ledger' = [ledger EXCEPT !.in = @ + amount]
    /\ Done("join_pool", user)
    /\ UNCHANGED << reclaimed, now, slot, randomness_data, received >>

-----------------------------------------------------------------------------
(* donate *)

\* A donation window that stays open for as long as the pool is Locked.
can_donate_while_locked ==
    IF pool.status = "Open"
    THEN IF now <= pool.start_time + pool.duration THEN "Ok" ELSE "PoolExpired"
    ELSE IF pool.status = "Locked" THEN "Ok"
    ELSE "DonateClosedAfterUnlock"

can_donate ==
    IF pool.status = "Open"
    THEN IF now <= pool.start_time + pool.duration THEN "Ok" ELSE "PoolExpired"
    ELSE IF pool.status = "Locked"
    THEN IF now < pool.lock_start_time + pool.lock_duration
         THEN "Ok" ELSE "DonateClosedAfterUnlock"
    ELSE "DonateClosedAfterUnlock"

donate_result(user, amount) ==
    IF ~Loaded THEN "AccountNotInitialized"
    ELSE IF ~pool.initialized THEN "UninitializedAccount"
    ELSE IF pool.paused THEN "Paused"
    ELSE IF ~(pool.status # "Unlocked" /\ pool.status # "Ended")
         THEN "DonateClosedAfterUnlock"
    ELSE IF ConfigHash(pool) # pool.config_hash THEN "ConfigMismatch"
    ELSE IF can_donate # "Ok" THEN can_donate
    ELSE IF ~(amount >= MinDonateNative) THEN "InvalidAmount"
    ELSE "Ok"

donate(user, amount) ==
    /\ donate_result(user, amount) = "Ok"
    /\ pool.total_donations < MaxDonations
    /\ pool_token' = pool_token + amount
    /\ pool' = [ pool EXCEPT !.total_amount = @ + amount,
                             !.total_volume = @ + amount,
                             !.total_donations = @ + 1 ]
    /\ ledger' = [ledger EXCEPT !.in = @ + amount]
    /\ Done("donate", user)
    /\ UNCHANGED << participants, reclaimed, now, slot, randomness_data, received >>

-----------------------------------------------------------------------------
(* set_lock_duration *)

\* A test that accepts any registry that is not empty.
some_participant == participants.count >= 1

\* set_lock_duration.rs:35
sole_participant == participants.count = 1

set_lock_duration_result(user, new_lock_duration) ==
    IF ~Loaded THEN "AccountNotInitialized"
    ELSE IF pool.paused THEN "Paused"
    ELSE IF user # pool.creator THEN "NotCreator"
    ELSE IF pool.status # "Open" THEN "InvalidPoolStatus"
    ELSE IF ~(new_lock_duration >= MIN_LOCK_DURATION
              /\ new_lock_duration <= MAX_LOCK_DURATION) THEN "InvalidLockDuration"
    ELSE IF ~(new_lock_duration >= pool.lock_duration)
         THEN "CannotDecreaseLockDuration"
    ELSE IF ~sole_participant THEN "CannotChangeAfterJoins"
    ELSE "Ok"

set_lock_duration(user, new_lock_duration) ==
    /\ set_lock_duration_result(user, new_lock_duration) = "Ok"
    /\ pool' = [pool EXCEPT !.lock_duration = new_lock_duration]
    /\ Done("set_lock_duration", user)
    /\ UNCHANGED << participants, pool_token, reclaimed, now, slot,
                    randomness_data, ledger, received >>

-----------------------------------------------------------------------------
(* unlock_pool *)

\* The lock taken to end when it starts.
assert_unlocked_time_from_start == now >= pool.lock_start_time

\* state.rs:111-117
assert_unlocked_time == now >= pool.lock_start_time + pool.lock_duration

unlock_pool_result(user) ==
    IF ~Loaded THEN "AccountNotInitialized"
    ELSE IF pool.paused THEN "Paused"
    ELSE IF user # pool.dev_wallet THEN "Unauthorized"
    ELSE IF pool.status # "Locked" THEN "InvalidPoolStatus"
    ELSE IF ~assert_unlocked_time THEN "PoolStillLocked"
    ELSE IF pool.lock_start_time = 0 THEN "InvalidLockDuration"
    ELSE "Ok"

unlock_pool(user) ==
    /\ unlock_pool_result(user) = "Ok"
    /\ pool' = [pool EXCEPT !.status = "Unlocked",
                            !.unlock_time = now,
                            !.status_reason = 0]
    /\ Done("unlock_pool", user)
    /\ UNCHANGED << participants, pool_token, reclaimed, now, slot,
                    randomness_data, ledger, received >>

-----------------------------------------------------------------------------
(* request_randomness *)

\* Owner of the account passed as `randomness`, and whether
\* RandomnessAccountData::parse accepts its data.
IsSwitchboardAccount(rk) == rk \in RandAccounts

request_randomness_allowed(user) ==
    IF now > pool.unlock_time + PAYOUT_TIMEOUT
    THEN user = pool.dev_wallet \/ user = pool.creator
    ELSE user = pool.dev_wallet

request_randomness_is_mock(rk) ==
    pool.allow_mock /\ (rk = DEFAULT_PUBKEY \/ rk = SYSTEM_PROGRAM_ID)

request_randomness_result(user, rk) ==
    IF ~Loaded THEN "AccountNotInitialized"
    ELSE IF pool.paused THEN "Paused"
    ELSE IF pool.status # "Unlocked" THEN "InvalidPoolStatus"
    ELSE IF ~(now >= pool.lock_start_time + pool.lock_duration)
         THEN "PoolStillLocked"
    ELSE IF ~request_randomness_allowed(user) THEN "Unauthorized"
    ELSE IF pool.randomness_account # ZERO_PUBKEY THEN "RandomnessAlreadySet"
    ELSE IF request_randomness_is_mock(rk) THEN "Ok"
    ELSE IF ~IsSwitchboardAccount(rk) THEN "InvalidRandomnessAccount"
    ELSE IF ~(randomness_data[rk].seed_slot <= slot
              /\ randomness_data[rk].seed_slot >= slot - SEED_SLOT_WINDOW)
         THEN "InvalidRandomness"
    ELSE "Ok"

MockRandomness ==
    HashPrefix(<<pool.pool_id, slot % 65521, PubkeyBytes(pool.creator)>>)

request_randomness(user, rk) ==
    /\ request_randomness_result(user, rk) = "Ok"
    /\ pool' = IF request_randomness_is_mock(rk)
               THEN [ pool EXCEPT !.randomness = MockRandomness,
                                  !.randomness_account = DEFAULT_PUBKEY,
                                  !.status = "RandomnessCommitted",
                                  !.randomness_commit_slot = slot ]
               ELSE [ pool EXCEPT !.randomness_account = rk,
                                  !.status = "RandomnessCommitted",
                                  !.randomness_commit_slot = slot ]
    /\ ledger' = [ledger EXCEPT !.requests = @ + 1]
    /\ Done("request_randomness", user)
    /\ UNCHANGED << participants, pool_token, reclaimed, now, slot,
                    randomness_data, received >>

-----------------------------------------------------------------------------
(* select_winner *)

\* The escalation taken at the emergency delay instead of the payout timeout.
PayoutTimedOut_at_emergency_delay == now > pool.unlock_time + EMERGENCY_DELAY

PayoutTimedOut == now > pool.unlock_time + PAYOUT_TIMEOUT

\* A mock branch that is taken only once a mock value has been stored.
select_winner_is_mock_once_stored ==
    pool.allow_mock /\ pool.randomness_account = DEFAULT_PUBKEY
        /\ pool.randomness # 0

\* select_winner.rs:85: the branch that reads the value stored by a mock
\* request_randomness.
select_winner_is_mock ==
    pool.allow_mock /\ pool.randomness_account = DEFAULT_PUBKEY

\* select_winner.rs:124: the oracle account has not revealed.
select_winner_is_emergency(rk) ==
    ~select_winner_is_mock /\ IsSwitchboardAccount(rk)
        /\ randomness_data[rk].reveal_slot = 0

\* An emergency branch that does not wait for the emergency delay.
select_winner_emergency_result_without_delay(user) ==
    IF ~pool.allow_mock THEN "InvalidRandomness"
    ELSE IF ~(user = pool.dev_wallet \/ user = pool.creator) THEN "Unauthorized"
    ELSE "Ok"

select_winner_emergency_result(user) ==
    IF ~pool.allow_mock THEN "InvalidRandomness"
    ELSE IF ~(now > pool.unlock_time + EMERGENCY_DELAY) THEN "TooEarlyForEmergency"
    ELSE IF ~(user = pool.dev_wallet \/ user = pool.creator) THEN "Unauthorized"
    ELSE "Ok"

select_winner_oracle_result(user, rk) ==
    IF ~pool.allow_mock /\ ~IsSwitchboardAccount(rk) THEN "InvalidRandomnessAccount"
    ELSE IF ~pool.allow_mock /\ rk # pool.randomness_account
         THEN "InvalidRandomnessAccount"
    ELSE IF ~IsSwitchboardAccount(rk) THEN "InvalidRandomness"
    ELSE IF ~pool.allow_mock /\ randomness_data[rk].seed_slot = 0
         THEN "RandomnessNotCommitted"
    ELSE IF randomness_data[rk].reveal_slot = 0
         THEN select_winner_emergency_result(user)
    ELSE IF randomness_data[rk].value = 0 THEN "RandomnessNotResolved"
    ELSE "Ok"

select_winner_result(user, rk) ==
    IF ~Loaded THEN "AccountNotInitialized"
    ELSE IF pool.paused THEN "Paused"
    ELSE IF pool.status \in {"Ended", "Cancelled", "Closed"} THEN "AlreadyEnded"
    ELSE IF pool.randomness_commit_slot # 0
            /\ ~(slot <= pool.randomness_commit_slot + RANDOMNESS_MAX_AGE_SLOTS)
         THEN "RandomnessExpired"
    ELSE IF ~PayoutTimedOut /\ user # pool.dev_wallet THEN "Unauthorized"
    ELSE IF pool.status \notin {"Unlocked", "RandomnessCommitted", "RandomnessRevealed"}
         THEN "InvalidPoolStatus"
    ELSE IF ~(participants.count > 0) THEN "NoParticipants"
    ELSE IF ConfigHash(pool) # pool.config_hash THEN "ConfigMismatch"
    ELSE IF select_winner_is_mock
         THEN IF pool.randomness = 0 THEN "RandomnessNotCommitted" ELSE "Ok"
    ELSE select_winner_oracle_result(user, rk)

\* The resolved 128-bit value (select_winner.rs:86, 143, 167).
ResolvedRandomness(rk) ==
    IF select_winner_is_mock THEN pool.randomness
    ELSE IF select_winner_is_emergency(rk) THEN MockRandomness
    ELSE randomness_data[rk].value

\* u64 prefix of sha256(pool_id || value[0..16]) (select_winner.rs:89, 148, 169).
Normalized(value) == HashPrefix(<<pool.pool_id, value>>)

\* An index reduced by the size of the list instead of the count.
winner_index_mod_capacity(rk) ==
    Normalized(ResolvedRandomness(rk)) % MAX_PARTICIPANTS

\* select_winner.rs:196
winner_index(rk) == Normalized(ResolvedRandomness(rk)) % participants.count

select_winner(user, rk) ==
    /\ select_winner_result(user, rk) = "Ok"
    /\ pool' = [ pool EXCEPT
                   !.winner = participants.list[winner_index(rk)],
                   !.randomness = ResolvedRandomness(rk),
                   !.randomness_account =
                        IF select_winner_is_emergency(rk) THEN ZERO_PUBKEY ELSE @,
                   !.status = "WinnerSelected",
                   !.status_reason = 0 ]
    /\ Done(IF select_winner_is_emergency(rk) THEN "select_winner_emergency"
            ELSE "select_winner", user)
    /\ UNCHANGED << participants, pool_token, reclaimed, now, slot,
                    randomness_data, ledger, received >>

-----------------------------------------------------------------------------
(* payout_winner *)

dev_amount(total) == FeeShare(total, pool.dev_fee_bps)
burn_amount(total) == FeeShare(total, pool.burn_fee_bps)
treasury_amount(total) == FeeShare(total, pool.treasury_fee_bps)
paid(total) == dev_amount(total) + burn_amount(total) + treasury_amount(total)
winner_amount(total) == total - paid(total)

\* A balance check that only asks the escrow to cover the recorded total.
escrow_covers_total == pool_token >= pool.total_amount

\* payout_winner.rs:161
escrow_matches_total == pool_token = pool.total_amount

payout_winner_result(user, winner_pubkey) ==
    IF ~Loaded THEN "AccountNotInitialized"
    ELSE IF pool.paused THEN "Paused"
    ELSE IF pool.status # "WinnerSelected" THEN "InvalidPoolStatus"
    ELSE IF ~(participants.count > 0) THEN "NoParticipants"
    ELSE IF pool.winner = ZERO_PUBKEY THEN "NoWinnerSelected"
    ELSE IF pool.winner # winner_pubkey THEN "InvalidWinnerPubkey"
    ELSE IF ~PayoutTimedOut /\ user # pool.dev_wallet THEN "Unauthorized"
    ELSE IF ~escrow_matches_total THEN "SpoofedDonation"
    ELSE IF paid(pool.total_amount) > pool.total_amount THEN "Overflow"
    ELSE "Ok"

\* Credits `amount` to wallet `k` in the history of receipts.
Credit(rec, k, amount) == [rec EXCEPT ![k] = @ + amount]

payout_winner(user, winner_pubkey) ==
    /\ payout_winner_result(user, winner_pubkey) = "Ok"
    /\ LET total == pool.total_amount
           after_moves == pool_token - winner_amount(total) - dev_amount(total)
                            - treasury_amount(total) - burn_amount(total)
           dust == after_moves
       IN /\ received' = Credit(Credit(Credit(received,
                                winner_pubkey, winner_amount(total)),
                                pool.dev_wallet, dev_amount(total)),
                                pool.treasury_wallet, treasury_amount(total))
          /\ pool_token' = after_moves - dust
          /\ ledger' = [ ledger EXCEPT
                           !.out = @ + winner_amount(total) + dev_amount(total)
                                     + treasury_amount(total),
                           !.burned = @ + burn_amount(total) + dust ]
    /\ participants' = [participants EXCEPT !.count = 0]
    /\ pool' = [ pool EXCEPT !.end_time = now,
                             !.status_reason = 0,
                             !.total_amount = 0,
                             !.status = "Ended" ]
    /\ Done("payout_winner", user)
    /\ UNCHANGED << reclaimed, now, slot, randomness_data >>

-----------------------------------------------------------------------------
(* cancel_pool, admin_close_pool, sweep_expired_pool *)

cancel_pool_result(user) ==
    IF ~Loaded THEN "AccountNotInitialized"
    ELSE IF ~pool.initialized THEN "UninitializedAccount"
    ELSE IF pool.paused THEN "Paused"
    ELSE IF user # pool.creator THEN "NotCreator"
    ELSE IF pool.status # "Open" THEN "InvalidPoolStatus"
    ELSE "Ok"

cancel_pool(user) ==
    /\ cancel_pool_result(user) = "Ok"
    /\ pool' = [pool EXCEPT !.status = "Cancelled",
                            !.status_reason = REASON_CANCELLED,
                            !.close_time = now]
    /\ Done("cancel_pool", user)
    /\ UNCHANGED << participants, pool_token, reclaimed, now, slot,
                    randomness_data, ledger, received >>

admin_close_pool_result(user) ==
    IF ~Loaded THEN "AccountNotInitialized"
    ELSE IF pool.paused THEN "Paused"
    ELSE IF user # pool.dev_wallet THEN "NotDeveloper"
    ELSE IF pool.status # "Open" THEN "InvalidPoolStatus"
    ELSE "Ok"

admin_close_pool(user) ==
    /\ admin_close_pool_result(user) = "Ok"
    /\ pool' = [pool EXCEPT !.status = "Cancelled",
                            !.status_reason = REASON_ADMIN_CLOSED,
                            !.close_time = now]
    /\ Done("admin_close_pool", user)
    /\ UNCHANGED << participants, pool_token, reclaimed, now, slot,
                    randomness_data, ledger, received >>

\* A sweep that is due as soon as the pool has expired.
too_early_until_expiry == now <= pool.expire_time

\* sweep_expired_pool.rs:35
too_early == now <= pool.expire_time + SWEEP_DELAY

sweep_expired_pool_result(user) ==
    IF ~Loaded THEN "AccountNotInitialized"
    ELSE IF pool.paused THEN "Paused"
    ELSE IF too_early /\ ~pool.allow_mock
         THEN "PoolNotExpired"
    ELSE IF user # pool.dev_wallet THEN "NotDeveloper"
    ELSE IF pool.status # "Open" THEN "InvalidPoolStatus"
    ELSE "Ok"

sweep_expired_pool(user) ==
    /\ sweep_expired_pool_result(user) = "Ok"
    /\ pool' = [pool EXCEPT !.status = "Cancelled",
                            !.status_reason = REASON_EXPIRED,
                            !.close_time = now]
    /\ Done("sweep_expired_pool", user)
    /\ UNCHANGED << participants, pool_token, reclaimed, now, slot,
                    randomness_data, ledger, received >>

-----------------------------------------------------------------------------
(* claim_refund *)

RefundableReason ==
    pool.status_reason \in {REASON_CANCELLED, REASON_ADMIN_CLOSED, REASON_EXPIRED}

\* Index of the caller in list[0..count), the first match.
IndexOf(user) ==
    CHOOSE i \in 0 .. (participants.count - 1) :
        /\ participants.list[i] = user
        /\ \A j \in 0 .. (i - 1) : participants.list[j] # user

refund_burn_amount(user) ==
    IF user = pool.creator THEN pool.amount \div CREATOR_PENALTY_DIVISOR ELSE 0

\* A refund of the whole stake on top of the burnt penalty.
refund_amount_without_penalty(user) == pool.amount

\* claim_refund.rs:182
refund_amount(user) == pool.amount - refund_burn_amount(user)

claim_refund_result(user) ==
    IF ~Loaded THEN "AccountNotInitialized"
    ELSE IF pool.processing THEN "ReentrancyDetected"
    ELSE IF pool.status # "Cancelled" THEN "InvalidPoolStatus"
    ELSE IF ~RefundableReason THEN "InvalidPoolStatus"
    ELSE IF user = pool.dev_wallet
         THEN IF ~(now > pool.close_time + FORFEIT_DELAY)
              THEN "TooEarlyForEmergency" ELSE "Ok"
    ELSE IF ~InRegistry(user) THEN "NotParticipant"
    ELSE IF pool_token < refund_burn_amount(user) + refund_amount(user)
         THEN "TokenInsufficientFunds"
    ELSE "Ok"

\* list with the entry at `index` removed, the later entries shifted down
\* and the vacated last slot zeroed (claim_refund.rs:229-235).
RemoveAt(list, count, index) ==
    [ i \in DOMAIN list |->
        IF i >= index /\ i < count - 1 THEN list[i + 1]
        ELSE IF i = count - 1 THEN ZERO_PUBKEY
        ELSE list[i] ]

claim_refund(user) ==
    /\ claim_refund_result(user) = "Ok"
    /\ IF user = pool.dev_wallet
       THEN \* dev forfeit path: the whole balance goes to the treasury
            /\ received' = Credit(received, pool.treasury_wallet, pool_token)
            /\ ledger' = [ledger EXCEPT !.out = @ + pool_token]
            /\ pool_token' = 0
            /\ participants' = [participants EXCEPT !.count = 0]
            /\ Done("claim_refund_forfeit", user)
       ELSE /\ received' = Credit(received, user, refund_amount(user))
            /\ ledger' = [ledger EXCEPT !.out = @ + refund_amount(user),
                                        !.burned = @ + refund_burn_amount(user)]
            /\ pool_token' =
                  pool_token - refund_burn_amount(user) - refund_amount(user)
            /\ participants' =
                  [ list |-> RemoveAt(participants.list, participants.count,
                                      IndexOf(user)),
                    count |-> participants.count - 1 ]
            /\ Done("claim_refund", user)
    /\ UNCHANGED << pool, reclaimed, now, slot, randomness_data >>

-----------------------------------------------------------------------------
(* finalize_forfeited_pool: the two implementations *)

\* A finalize that looks at neither the status nor its reason.
finalize_forfeited_pool_result_any_status(user) ==
    IF ~Loaded THEN "AccountNotInitialized"
    ELSE IF ~pool.initialized THEN "UninitializedAccount"
    ELSE IF pool.paused THEN "Paused"
    ELSE IF now <= pool.close_time + FORFEIT_DELAY /\ ~pool.allow_mock
         THEN "TooEarlyForEmergency"
    ELSE IF ~(user = pool.dev_wallet \/ user = pool.treasury_wallet)
         THEN "Unauthorized"
    ELSE "Ok"

finalize_forfeited_pool_result(user) ==
    IF ~Loaded THEN "AccountNotInitialized"
    ELSE IF ~pool.initialized THEN "UninitializedAccount"
    ELSE IF pool.paused THEN "Paused"
    ELSE IF pool.status # "Cancelled" THEN "InvalidPoolStatus"
    ELSE IF ~RefundableReason THEN "InvalidPoolStatus"
    ELSE IF pool.close_time = 0 THEN "InvalidPoolStatus"
    ELSE IF now <= pool.close_time + FORFEIT_DELAY /\ ~pool.allow_mock
         THEN "TooEarlyForEmergency"
    ELSE IF ~(user = pool.dev_wallet \/ user = pool.treasury_wallet)
         THEN "Unauthorized"
    ELSE "Ok"

\* list with the first `count` entries zeroed (finalize_forfeited_pool.rs:142-145).
Wipe(list, count) ==
    [i \in DOMAIN list |-> IF i < count THEN ZERO_PUBKEY ELSE list[i]]

finalize_forfeited_pool(user) ==
    /\ finalize_forfeited_pool_result(user) = "Ok"
    /\ received' = Credit(received, pool.treasury_wallet, pool_token)
    /\ ledger' = [ledger EXCEPT !.out = @ + pool_token]
    /\ pool_token' = 0
    /\ participants' = [ list |-> Wipe(participants.list, participants.count),
                         count |-> 0 ]
    /\ pool' = [pool EXCEPT !.status = "Closed",
                            !.status_reason = 0,
                            !.close_time = now,
                            !.total_amount = 0]
    /\ Done("finalize_forfeited_pool", user)
    /\ UNCHANGED << reclaimed, now, slot, randomness_data >>

finalize_forfeited_pool_server_result(user) ==
    IF ~Loaded THEN "AccountNotInitialized"
    ELSE IF pool.paused THEN "Paused"
    ELSE IF pool.status # "Cancelled" THEN "InvalidPoolStatus"
    ELSE IF now <= pool.close_time + FORFEIT_DELAY /\ ~pool.allow_mock
         THEN "TooEarlyForEmergency"
    ELSE IF ~(user = pool.dev_wallet \/ user = pool.treasury_wallet)
         THEN "Unauthorized"
    ELSE "Ok"

\* `treasury_token` is whatever token account the caller passes.
finalize_forfeited_pool_server(user, treasury_token_owner) ==
    /\ finalize_forfeited_pool_server_result(user) = "Ok"
    /\ received' = Credit(received, treasury_token_owner, pool_token)
    /\ ledger' = [ledger EXCEPT !.out = @ + pool_token]
    /\ pool_token' = 0
    /\ participants' = [participants EXCEPT !.count = 0]
    /\ pool' = [pool EXCEPT !.status = "Closed",
                            !.status_reason = 0,
                            !.close_time = now]
    /\ Done("finalize_forfeited_pool_server", user)
    /\ UNCHANGED << reclaimed, now, slot, randomness_data >>

-----------------------------------------------------------------------------
(* claim_rent *)

rent_recipient(user) ==
    IF user = pool.dev_wallet THEN pool.treasury_wallet ELSE pool.creator

claim_rent_result(user, close_target) ==
    IF ~Loaded THEN "AccountNotInitialized"
    ELSE IF pool.status \notin {"Ended", "Cancelled", "Closed", "WinnerSelected"}
         THEN "InvalidPoolStatus"
    ELSE IF participants.count # 0 THEN "PoolNotEmpty"
    ELSE IF ~(user = pool.creator \/ user = pool.dev_wallet) THEN "Unauthorized"
    ELSE IF user = pool.dev_wallet /\ ~(now > pool.close_time + FORFEIT_DELAY)
         THEN "TooEarlyForEmergency"
    ELSE IF close_target # rent_recipient(user) THEN "Unauthorized"
    ELSE IF pool.status # "Cancelled" /\ pool_token # 0 THEN "PoolNotEmpty"
    ELSE "Ok"

claim_rent(user, close_target) ==
    /\ claim_rent_result(user, close_target) = "Ok"
    /\ ledger' = IF pool.status = "Cancelled"
                 THEN [ledger EXCEPT !.burned = @ + pool_token]
                 ELSE ledger
    /\ pool_token' = 0
    /\ pool' = [pool EXCEPT !.status = "Closed",
                            !.status_reason = 0,
                            !.close_time = now]
    /\ reclaimed' = TRUE
    /\ Done("claim_rent", user)
    /\ UNCHANGED << participants, now, slot, randomness_data, received >>

-----------------------------------------------------------------------------
(* pause_pool, unpause_pool, force_expire *)

pause_pool_result(user) ==
    IF ~Loaded THEN "AccountNotInitialized"
    ELSE IF user # pool.dev_wallet THEN "Unauthorized"
    ELSE IF ~(pool.status # "Ended" /\ pool.status # "Closed")
         THEN "InvalidPoolStatus"
    ELSE "Ok"

\* pause_pool.rs:28-29
pause_pool_writes(p) == [p EXCEPT !.paused = TRUE, !.status_reason = REASON_PAUSED]

pause_pool(user) ==
    /\ pause_pool_result(user) = "Ok"
    /\ pool' = pause_pool_writes(pool)
    /\ Done("pause_pool", user)
    /\ UNCHANGED << participants, pool_token, reclaimed, now, slot,
                    randomness_data, ledger, received >>

unpause_pool_result(user) ==
    IF ~Loaded THEN "AccountNotInitialized"
    ELSE IF user # pool.dev_wallet THEN "Unauthorized"
    ELSE IF ~(pool.status # "Ended" /\ pool.status # "Closed")
         THEN "InvalidPoolStatus"
    ELSE "Ok"

\* unpause_pool.rs:18-19
unpause_pool_writes(p) == [p EXCEPT !.paused = FALSE, !.status_reason = 0]

unpause_pool(user) ==
    /\ unpause_pool_result(user) = "Ok"
    /\ pool' = unpause_pool_writes(pool)
    /\ Done("unpause_pool", user)
    /\ UNCHANGED << participants, pool_token, reclaimed, now, slot,
                    randomness_data, ledger, received >>

force_expire_result(user) ==
    IF ~Loaded THEN "AccountNotInitialized"
    ELSE IF ~pool.allow_mock THEN "Unauthorized"
    ELSE IF user # pool.dev_wallet THEN "Unauthorized"
    ELSE IF ~(now >= pool.start_time + FORCE_EXPIRE_MIN_ELAPSED)
         THEN "TooEarlyForEmergency"
    ELSE "Ok"

force_expire(user) ==
    /\ force_expire_result(user) = "Ok"
    /\ ledger.force_expires < MaxForceExpires
    /\ pool.status \in ForceExpireStatuses
    /\ pool' = [pool EXCEPT !.expire_time = now - 10, !.duration = 0]
    /\ ledger' = [ledger EXCEPT !.force_expires = @ + 1]
    /\ Done("force_expire", user)
    /\ UNCHANGED << participants, pool_token, reclaimed, now, slot,
                    randomness_data, received >>

-----------------------------------------------------------------------------
(* The environment: the two clocks, the oracle, the token program *)

\* The clock is advanced to the instants at which some time guard of the
\* current status changes its value: for a guard `now <= d` or `now > d`
\* the instants d and d + 1, for a guard `now >= d` the instant d.
Deadlines ==
    IF ~Loaded THEN {}
    ELSE (IF pool.status = "Open"
          THEN { pool.start_time + pool.duration,
                 pool.start_time + pool.duration + 1 }
                 \cup (IF pool.allow_mock THEN {}
                       ELSE { pool.expire_time + SWEEP_DELAY,
                              pool.expire_time + SWEEP_DELAY + 1 })
          ELSE {})
      \cup (IF pool.status = "Locked"
            THEN { pool.lock_start_time + pool.lock_duration,
                   pool.lock_start_time + pool.lock_duration + PAYOUT_TIMEOUT + 1 }
            ELSE {})
      \cup (IF pool.status \in {"Unlocked", "RandomnessCommitted", "WinnerSelected"}
            THEN { pool.unlock_time + EMERGENCY_DELAY,
                   pool.unlock_time + EMERGENCY_DELAY + 1,
                   pool.unlock_time + PAYOUT_TIMEOUT,
                   pool.unlock_time + PAYOUT_TIMEOUT + 1 }
            ELSE {})
      \cup (IF pool.status = "Cancelled"
            THEN { pool.close_time + FORFEIT_DELAY,
                   pool.close_time + FORFEIT_DELAY + 1 }
            ELSE {})

advance_time(t) ==
    /\ t > now
    /\ t \in Deadlines
    /\ now' = t
    /\ UNCHANGED << pool, participants, pool_token, reclaimed, slot,
                    randomness_data, ledger, received, last, call >>

\* The slots at which a slot guard changes its value.
SlotDeadlines ==
    { randomness_data[r].seed_slot + SEED_SLOT_WINDOW :
        r \in {q \in RandAccounts : randomness_data[q].seed_slot # 0
                                    /\ Loaded /\ pool.status = "Unlocked"} }
      \cup (IF Loaded /\ pool.status = "RandomnessCommitted"
            THEN {pool.randomness_commit_slot + RANDOMNESS_MAX_AGE_SLOTS}
            ELSE {})

advance_slot(s) ==
    /\ s > slot
    /\ \E d \in SlotDeadlines : s = d \/ s = d + 1
    /\ slot' = s
    /\ UNCHANGED << pool, participants, pool_token, reclaimed, now,
                    randomness_data, ledger, received, last, call >>

\* The oracle commits to a seed slot, then reveals a value.
oracle_commit(r) ==
    /\ Loaded /\ pool.status = "Unlocked"
    /\ randomness_data[r].seed_slot = 0
    /\ randomness_data' = [randomness_data EXCEPT ![r].seed_slot = slot]
    /\ UNCHANGED << pool, participants, pool_token, reclaimed, now, slot,
                    ledger, received, last, call >>

oracle_reveal(r, value) ==
    /\ Loaded /\ pool.status = "RandomnessCommitted"
    /\ randomness_data[r].seed_slot # 0
    /\ randomness_data[r].reveal_slot = 0
    /\ randomness_data' = [randomness_data EXCEPT ![r].reveal_slot = slot,
                                                  ![r].value = value]
    /\ UNCHANGED << pool, participants, pool_token, reclaimed, now, slot,
                    ledger, received, last, call >>

\* Anybody can transfer tokens straight into the pool's token account
\* without calling the program (the case payout_winner's SpoofedDonation
\* check is written for).
direct_transfer(amount) ==
    /\ Loaded
    /\ ledger.spoofed < MaxSpoofed * SpoofAmount
    /\ pool_token' = pool_token + amount
    /\ ledger' = [ledger EXCEPT !.spoofed = @ + amount]
    /\ last' = "direct_transfer"
    /\ UNCHANGED << pool, participants, reclaimed, now, slot,
                    randomness_data, received, call >>

-----------------------------------------------------------------------------

Next ==
    \/ \E user \in Creators, mp \in MaxParticipantsArgs, ld \in LockDurationArgs,
          amount \in AmountArgs, dev \in DevWallets, fees \in FeeArgs,
          tr \in TreasuryWallets, am \in AllowMockArgs, oc \in OverflowChecks :
            create_pool(user, mp, ld, amount, dev, fees, tr, am, oc)
    \/ \E user \in Joiners, amount \in JoinAmountArgs : join_pool(user, amount)
    \/ \E user \in Pubkeys, amount \in DonateArgs : donate(user, amount)
    \/ \E user \in Pubkeys, nd \in NewLockDurationArgs : set_lock_duration(user, nd)
    \/ \E user \in Pubkeys : unlock_pool(user)
    \/ \E user \in Pubkeys, rk \in RandomnessArgs : request_randomness(user, rk)
    \/ \E user \in Pubkeys, rk \in RandomnessArgs : select_winner(user, rk)
    \/ \E user \in Pubkeys, w \in Pubkeys : payout_winner(user, w)
    \/ \E user \in Pubkeys : cancel_pool(user)
    \/ \E user \in Pubkeys : admin_close_pool(user)
    \/ \E user \in Pubkeys : sweep_expired_pool(user)
    \/ \E user \in Pubkeys : claim_refund(user)
    \/ \E user \in Pubkeys : finalize_forfeited_pool(user)
    \/ \E user \in Pubkeys, dest \in Pubkeys : finalize_forfeited_pool_server(user, dest)
    \/ \E user \in Pubkeys, target \in Pubkeys : claim_rent(user, target)
    \/ \E user \in Pubkeys : pause_pool(user)
    \/ \E user \in Pubkeys : unpause_pool(user)
    \/ \E user \in Pubkeys : force_expire(user)
    \/ \E t \in Deadlines : advance_time(t)
    \/ \E d \in SlotDeadlines : advance_slot(d) \/ advance_slot(d + 1)
    \/ \E r \in RandAccounts : oracle_commit(r)
    \/ \E r \in RandAccounts, v \in OracleValues : oracle_reveal(r, v)
    \/ direct_transfer(SpoofAmount)

Spec == Init /\ [][Next]_vars

-----------------------------------------------------------------------------
(* The fee split of payout_winner as a function of the total and the fee  *)
(* triple: the pools about to be settled, over a range of totals and       *)
(* triples.  Each is the state reached by create_pool and one join_pool    *)
(* with max_participants = 2, at most one donation, unlock_pool,           *)
(* request_randomness, an oracle reveal and select_winner.                 *)

FeeDonations ==
    {0, MinDonateNative, MinDonateNative + 1, MinDonateNative + 9999,
     MinDonateNative + 1234567, MinDonateNative + 5432109}
FeeTriples ==
    { <<500, 100, 200>>, <<0, 0, 0>>, <<10000, 0, 0>>, <<0, 10000, 0>>,
      <<3333, 3333, 3334>>, <<1, 1, 1>>, <<9999, 0, 1>>, <<250, 250, 250>>,
      <<5000, 5000, 0>>, <<1234, 4321, 17>> }
FeeOracleValues == {1, 2}

SettledPool(donation, fees, value) ==
    LET p0 == [ NoPool EXCEPT
                  !.pool_id = HashPrefix(<<Salt, GenesisSlot % 65521, PubkeyBytes("A")>>),
                  !.salt = Salt,
                  !.creator = "A",
                  !.start_time = Genesis,
                  !.duration = POOL_OPEN_DURATION,
                  !.expire_time = Genesis + POOL_OPEN_DURATION,
                  !.max_participants = 2,
                  !.lock_duration = MIN_LOCK_DURATION,
                  !.lock_start_time = Genesis,
                  !.unlock_time = Genesis + MIN_LOCK_DURATION,
                  !.amount = MinNative,
                  !.total_amount = 2 * MinNative + donation,
                  !.total_volume = 2 * MinNative + donation,
                  !.total_joins = 2,
                  !.total_donations = IF donation > 0 THEN 1 ELSE 0,
                  !.dev_wallet = "D",
                  !.dev_fee_bps = fees[1],
                  !.burn_fee_bps = fees[2],
                  !.treasury_wallet = "T",
                  !.treasury_fee_bps = fees[3],
                  !.randomness = value,
                  !.randomness_account = "R1",
                  !.randomness_commit_slot = GenesisSlot,
                  !.status = "WinnerSelected",
                  !.initialized = TRUE ]
        list == [ZeroList EXCEPT ![0] = "A", ![1] = "B"]
    IN [ p0 EXCEPT !.config_hash = ConfigHash(p0),
                   !.winner = list[HashPrefix(<<p0.pool_id, value>>) % 2] ]

FeeInit ==
    \E donation \in FeeDonations, fees \in FeeTriples, value \in FeeOracleValues :
        /\ pool = SettledPool(donation, fees, value)
        /\ participants = [list |-> [ZeroList EXCEPT ![0] = "A", ![1] = "B"],
                           count |-> 2]
        /\ pool_token = 2 * MinNative + donation
        /\ reclaimed = FALSE
        /\ now = Genesis + MIN_LOCK_DURATION
        /\ slot = GenesisSlot
        /\ randomness_data =
              [r \in RandAccounts |->
                  IF r \in FreshRandAccounts
                  THEN [seed_slot |-> GenesisSlot, reveal_slot |-> GenesisSlot,
                        value |-> value]
                  ELSE OldRandomness]
        /\ ledger = [in |-> 2 * MinNative + donation, out |-> 0, burned |-> 0,
                     spoofed |-> 0, force_expires |-> 0, requests |-> 1]
        /\ received = [k \in Pubkeys |-> 0]
        /\ last = "select_winner"
        /\ call = NoCall

FeeNext == \E user \in Pubkeys, w \in Pubkeys : payout_winner(user, w)

FeeSpec == FeeInit /\ [][FeeNext]_vars

\* d = floor(total * bps / 10000), stated as 10000 * d <= total * bps <
\* 10000 * (d + 1) with 10000 * floor(total / 10000) * bps taken off the
\* three sides.
IsFloorOfShare(d, total, bps) ==
    LET e == d - (total \div FEE_DENOMINATOR) * bps
        rest == (total % FEE_DENOMINATOR) * bps
    IN e * FEE_DENOMINATOR <= rest /\ rest < (e + 1) * FEE_DENOMINATOR

\* C5: for every total and every fee triple with sum <= 10000,
\* payout_winner pays dev = floor(total * dev_bps / 10000), burns
\* floor(total * burn_bps / 10000) plus the dust, pays treasury =
\* floor(total * treasury_bps / 10000) and pays the winner the rest, so
\* that the four parts add up to the total exactly and the escrow is left
\* empty; 500/100/200 on 40_000000 gives 2_000000 / 400000 / 800000 /
\* 36_800000.
C5_FeeSplitIsPartition ==
    last = "payout_winner" /\ pool.winner # pool.dev_wallet =>
        LET total == ledger.in
            dev == received[pool.dev_wallet]
            burn == ledger.burned
            treasury == received[pool.treasury_wallet]
            winner == received[pool.winner]
        IN /\ IsFloorOfShare(dev, total, pool.dev_fee_bps)
           /\ IsFloorOfShare(burn, total, pool.burn_fee_bps)
           /\ IsFloorOfShare(treasury, total, pool.treasury_fee_bps)
           /\ winner = total - dev - burn - treasury
           /\ dev + burn + treasury + winner = total
           /\ winner >= 0
           /\ pool_token = 0
           /\ ( total = 40000000 /\ pool.dev_fee_bps = 500
                   /\ pool.burn_fee_bps = 100 /\ pool.treasury_fee_bps = 200
                 => /\ dev = 2000000 /\ burn = 400000
                    /\ treasury = 800000 /\ winner = 36800000 )

\* The scenario of the specification has been paid out.
C5_Witness ==
    /\ last = "payout_winner"
    /\ ledger.in = 40000000
    /\ pool.dev_fee_bps = 500 /\ pool.burn_fee_bps = 100
    /\ pool.treasury_fee_bps = 200
    /\ received[pool.winner] = 36800000

-----------------------------------------------------------------------------
(* Accounting and registry invariants *)

\* C1: in every reachable state the recorded total_amount equals the value
\* moved into the escrow by create_pool, join_pool and donate minus the
\* value moved out of it (transferred or burned) by payout_winner,
\* claim_refund, finalize_forfeited_pool and claim_rent.
C1_TotalAmountIsNetFlow ==
    Loaded => pool.total_amount = ledger.in - ledger.out - ledger.burned

\* C2: whenever the status of a pool record is Ended or Closed, its
\* recorded total_amount is exactly 0.
C2_ZeroAtTerminal ==
    Loaded /\ pool.status \in {"Ended", "Closed"} => pool.total_amount = 0

\* C3: in every reachable state the registry count is at most the pool's
\* max_participants and the entries list[0..count) are pairwise distinct.
C3_RegistryBoundedAndDistinct ==
    pool.initialized =>
        /\ participants.count <= pool.max_participants
        /\ \A i, j \in 0 .. (participants.count - 1) :
              i # j => participants.list[i] # participants.list[j]

\* A registry filled to max_participants by join_pool.
C3_Witness ==
    /\ Loaded /\ last = "join_pool"
    /\ participants.count = pool.max_participants
    /\ participants.count >= 3

\* C6: payout_winner succeeds only when the status is WinnerSelected and
\* the escrow balance equals the recorded total_amount; after every
\* successful payout_winner the escrow balance is 0, the status is Ended,
\* and what has left the escrow is the winner share to the identity stored
\* as pool.winner, the dev share to dev_wallet and the treasury share to
\* treasury_wallet.
C6_PayoutGuardsAndEffect ==
    /\ \A u, w \in Pubkeys :
          payout_winner_result(u, w) = "Ok" =>
              pool.status = "WinnerSelected" /\ pool_token = pool.total_amount
    /\ last = "payout_winner" =>
          /\ pool_token = 0
          /\ pool.status = "Ended"
          /\ received =
                Credit(Credit(Credit([k \in Pubkeys |-> 0],
                    pool.winner, winner_amount(ledger.in)),
                    pool.dev_wallet, dev_amount(ledger.in)),
                    pool.treasury_wallet, treasury_amount(ledger.in))

\* A pool that took a donation has been paid out to its winner.
C6_Witness ==
    /\ last = "payout_winner" /\ pool.status = "Ended"
    /\ pool.total_donations > 0
    /\ received[pool.winner] >= winner_amount(ledger.in)
    /\ received[pool.winner] > 0

\* C4: in every reachable state every registry slot at an index greater
\* than or equal to count holds the zero identity.
C4_SlotsBeyondCountAreZero ==
    \A i \in DOMAIN participants.list :
        i >= participants.count => participants.list[i] = ZERO_PUBKEY

-----------------------------------------------------------------------------
(* Authorization *)

\* C7: once the payout timeout has elapsed past the relevant deadline (the
\* end of the lock for unlock_pool, unlock_time for the others),
\* unlock_pool, select_winner and payout_winner succeed for any caller,
\* and request_randomness for the creator, when their other guards hold
\* (the emergency fallback of select_winner, which names its own callers,
\* is left aside).
C7_AnyCallerAfterTimeout ==
    Loaded /\ ~pool.paused =>
        /\ ( pool.status = "Locked"
               /\ now > pool.lock_start_time + pool.lock_duration + PAYOUT_TIMEOUT
             => \A u \in Pubkeys : unlock_pool_result(u) = "Ok" )
        /\ ( pool.status \in {"Unlocked", "RandomnessCommitted", "WinnerSelected"}
               /\ now > pool.unlock_time + PAYOUT_TIMEOUT
             => /\ \A rk \in RandomnessArgs :
                     request_randomness_result(pool.creator, rk)
                         = request_randomness_result(pool.dev_wallet, rk)
                /\ \A u \in Pubkeys, rk \in RandomnessArgs :
                     select_winner_result(pool.dev_wallet, rk) = "Ok"
                         /\ ~select_winner_is_emergency(rk)
                     => select_winner_result(u, rk) = "Ok"
                /\ \A u \in Pubkeys :
                     payout_winner_result(pool.dev_wallet, pool.winner) = "Ok"
                     => payout_winner_result(u, pool.winner) = "Ok" )

\* C8: until the payout timeout has elapsed (now <= unlock_time +
\* PAYOUT_TIMEOUT), unlock_pool, request_randomness, select_winner and
\* payout_winner succeed only for the pool's dev_wallet; a call that would
\* succeed for dev_wallet is rejected with Unauthorized for anybody else.
\* unlock_pool runs before unlock_time is set and is held to this at every
\* time.
C8_OperatorOnlyUntilTimeout ==
    Loaded =>
      \A u \in Pubkeys :
        u # pool.dev_wallet =>
          /\ unlock_pool_result(u) # "Ok"
          /\ ( unlock_pool_result(pool.dev_wallet) = "Ok"
                 => unlock_pool_result(u) = "Unauthorized" )
          /\ ( now <= pool.unlock_time + PAYOUT_TIMEOUT =>
                 /\ \A rk \in RandomnessArgs :
                       /\ request_randomness_result(u, rk) # "Ok"
                       /\ ( request_randomness_result(pool.dev_wallet, rk) = "Ok"
                              => request_randomness_result(u, rk) = "Unauthorized" )
                       /\ select_winner_result(u, rk) # "Ok"
                       /\ ( select_winner_result(pool.dev_wallet, rk) = "Ok"
                              => select_winner_result(u, rk) = "Unauthorized" )
                 /\ \A w \in Pubkeys :
                       /\ payout_winner_result(u, w) # "Ok"
                       /\ ( payout_winner_result(pool.dev_wallet, w) = "Ok"
                              => payout_winner_result(u, w) = "Unauthorized" ) )

\* One second before the timeout: the creator, who is not the operator, is
\* turned away from a select_winner and the operator is not.
C8_Witness ==
    /\ Loaded /\ pool.creator # pool.dev_wallet
    /\ now = pool.unlock_time + PAYOUT_TIMEOUT
    /\ \E rk \in RandomnessArgs :
          /\ select_winner_result(pool.dev_wallet, rk) = "Ok"
          /\ select_winner_result(pool.creator, rk) = "Unauthorized"

-----------------------------------------------------------------------------
(* Randomness *)

\* C9: after select_winner has failed because more than 3000 slots have
\* passed since the commit, a request_randomness on the same pool succeeds
\* (for some caller and some randomness account).
C9_RestartAfterExpiry ==
    Loaded /\ ~pool.paused
        /\ pool.status \in {"Unlocked", "RandomnessCommitted", "RandomnessRevealed"}
        /\ pool.randomness_commit_slot # 0
        /\ slot > pool.randomness_commit_slot + RANDOMNESS_MAX_AGE_SLOTS
    => \E u \in Pubkeys, rk \in RandomnessArgs :
          request_randomness_result(u, rk) = "Ok"

\* C10: when the oracle has not revealed and more than EMERGENCY_DELAY has
\* passed since unlock, select_winner by the operator takes the emergency
\* fallback and succeeds, with allow_mock set or not; so does
\* select_winner by the creator once callers other than the operator are
\* admitted.
C10_EmergencyFallbackWithoutMock ==
    Loaded /\ ~pool.paused
        /\ pool.status = "RandomnessCommitted"
        /\ participants.count > 0
        /\ ConfigHash(pool) = pool.config_hash
        /\ slot <= pool.randomness_commit_slot + RANDOMNESS_MAX_AGE_SLOTS
        /\ pool.randomness_account \in RandAccounts
        /\ now > pool.unlock_time + EMERGENCY_DELAY
    => LET rk == pool.randomness_account
       IN randomness_data[rk].seed_slot # 0 /\ randomness_data[rk].reveal_slot = 0
          => /\ select_winner_result(pool.dev_wallet, rk) = "Ok"
             /\ ( now > pool.unlock_time + PAYOUT_TIMEOUT
                    => select_winner_result(pool.creator, rk) = "Ok" )

-----------------------------------------------------------------------------
(* Refunds, the pause switch and the configuration fingerprint *)

\* C11: in a Cancelled pool that has not been finalized, claim_refund
\* succeeds for every identity currently in the registry, whatever was
\* invoked in between (pause_pool and unpause_pool included) and whatever
\* other role the identity holds.
C11_RefundAlwaysClaimable ==
    Loaded /\ pool.status = "Cancelled" /\ pool_token >= pool.amount =>
        \A u \in Pubkeys : InRegistry(u) => claim_refund_result(u) = "Ok"

\* C12: while the paused flag is set, every operation other than
\* pause_pool and unpause_pool fails, and pause_pool and unpause_pool
\* succeed only for the operator.
C12_PausedBlocksEverything ==
    /\ Loaded /\ pool.paused =>
          \A u, k \in Pubkeys :
            /\ \A a \in JoinAmountArgs : join_pool_result(u, a) # "Ok"
            /\ \A a \in DonateArgs : donate_result(u, a) # "Ok"
            /\ \A nd \in NewLockDurationArgs : set_lock_duration_result(u, nd) # "Ok"
            /\ unlock_pool_result(u) # "Ok"
            /\ \A rk \in RandomnessArgs :
                  /\ request_randomness_result(u, rk) # "Ok"
                  /\ select_winner_result(u, rk) # "Ok"
            /\ payout_winner_result(u, k) # "Ok"
            /\ cancel_pool_result(u) # "Ok"
            /\ admin_close_pool_result(u) # "Ok"
            /\ sweep_expired_pool_result(u) # "Ok"
            /\ claim_refund_result(u) # "Ok"
            /\ finalize_forfeited_pool_result(u) # "Ok"
            /\ finalize_forfeited_pool_server_result(u) # "Ok"
            /\ claim_rent_result(u, k) # "Ok"
            /\ force_expire_result(u) # "Ok"
    /\ Loaded =>
          \A u \in Pubkeys :
            u # pool.dev_wallet =>
                pause_pool_result(u) # "Ok" /\ unpause_pool_result(u) # "Ok"

-----------------------------------------------------------------------------
(* Joining, locking, unlocking and donating *)

\* A step in which join_pool has succeeded on the existing pool.
JoinStep == Loaded /\ pool'.total_joins = pool.total_joins + 1

\* C14: join_pool succeeds only if the pool is not paused, now is not past
\* start_time + duration, the status is Open, the registry is below
\* capacity, the caller is not in the registry and the supplied amount
\* equals the configured stake; a successful join_pool writes the caller
\* at index count, grows count by one, and grows total_amount and the
\* escrow balance by exactly the stake.
C14_JoinGuardsAndEffect ==
    /\ [](Loaded =>
            \A u \in Pubkeys, a \in JoinAmountArgs :
                join_pool_result(u, a) = "Ok" =>
                    /\ ~pool.paused
                    /\ now <= pool.start_time + pool.duration
                    /\ pool.status = "Open"
                    /\ participants.count < pool.max_participants
                    /\ \A i \in 0 .. (participants.count - 1) :
                          participants.list[i] # u
                    /\ a = pool.amount)
    /\ [][JoinStep =>
            /\ participants'.count = participants.count + 1
            /\ \E u \in Pubkeys :
                  /\ \A i \in 0 .. (participants.count - 1) :
                        participants.list[i] # u
                  /\ participants'.list =
                        [participants.list EXCEPT ![participants.count] = u]
            /\ pool'.total_amount = pool.total_amount + pool.amount
            /\ pool_token' = pool_token + pool.amount
            /\ pool'.amount = pool.amount]_vars

\* A second participant has joined a pool that took a donation before and
\* still has room.
C14_Witness ==
    /\ last = "join_pool" /\ pool.status = "Open"
    /\ participants.count = 2 /\ participants.count < pool.max_participants
    /\ participants.list[1] # pool.creator
    /\ pool.total_donations > 0
    /\ pool.total_amount = 2 * pool.amount + MinDonateNative + 9999

\* C15: a successful join_pool that makes count equal to max_participants
\* sets status to Locked and lock_start_time to the current time in the
\* same step; a successful join_pool that leaves count below
\* max_participants leaves status Open and lock_start_time 0.
C15_JoinLocksAtCapacity ==
    [][JoinStep =>
        IF participants'.count = pool.max_participants
        THEN pool'.status = "Locked" /\ pool'.lock_start_time = now'
        ELSE /\ participants'.count < pool.max_participants
             /\ pool'.status = "Open" /\ pool'.lock_start_time = 0]_vars

\* The join that filled the pool locked it at the current time, later than
\* the pool's creation.
C15_Witness ==
    /\ last = "join_pool" /\ pool.status = "Locked"
    /\ participants.count = pool.max_participants
    /\ pool.lock_start_time = now /\ now > pool.start_time

\* The statuses that follow Open.
LockedOrLater ==
    {"Locked", "Unlocked", "RandomnessCommitted", "RandomnessRevealed",
     "WinnerSelected", "Ended", "Cancelled", "Closed"}

\* C16: once the pool has been Locked (lock_start_time is set) and is in
\* Locked or any later status, every join_pool call fails, for every
\* caller and at every time, and the error is the one of the status
\* check, not one of timing, of the pause switch or of any other kind.
C16_JoinAfterLockIsStateError ==
    Loaded /\ pool.status \in LockedOrLater /\ pool.lock_start_time # 0 =>
        \A u \in Pubkeys, a \in JoinAmountArgs :
            join_pool_result(u, a) \in
                {"PoolUnavailableForJoin", "JoinClosedAfterUnlock"}

\* A step in which unlock_pool has succeeded.
UnlockStep == last' = "unlock_pool" /\ pool' # pool

\* C17: unlock_pool succeeds only if the caller is the operator, the
\* status is Locked and now >= lock_start_time + lock_duration; a
\* successful unlock_pool sets status to Unlocked and unlock_time to the
\* current time, and an unlock_pool by the operator that follows it
\* directly fails with the status error.
C17_UnlockGuardsAndEffect ==
    /\ [](Loaded =>
            \A u \in Pubkeys :
                unlock_pool_result(u) = "Ok" =>
                    /\ u = pool.dev_wallet
                    /\ pool.status = "Locked"
                    /\ now >= pool.lock_start_time + pool.lock_duration)
    /\ [][UnlockStep =>
            /\ unlock_pool_result(pool.dev_wallet) = "Ok"
            /\ pool'.status = "Unlocked"
            /\ pool'.unlock_time = now'
            /\ unlock_pool_result(pool.dev_wallet)' = "InvalidPoolStatus"]_vars

\* The operator has unlocked the pool at the end of the lock and a second
\* unlock_pool is refused.
C17_Witness ==
    /\ last = "unlock_pool" /\ pool.status = "Unlocked"
    /\ pool.lock_duration >= MIN_LOCK_DURATION
    /\ pool.unlock_time = now
    /\ now = pool.lock_start_time + pool.lock_duration
    /\ unlock_pool_result(pool.dev_wallet) = "InvalidPoolStatus"

\* A step in which donate has succeeded.
DonateStep == Loaded /\ pool'.total_donations = pool.total_donations + 1

\* C18: donate succeeds only when the pool is not paused and either the
\* status is Open with now <= start_time + duration or the status is
\* Locked with now < lock_start_time + lock_duration; it is rejected in
\* Unlocked and every later status; a successful donate grows
\* total_amount, total_volume and the escrow balance by the donated amount
\* and leaves the registry, list and count, unchanged.
C18_DonateGuardsAndEffect ==
    /\ [](Loaded =>
            \A u \in Pubkeys, a \in DonateArgs :
                /\ donate_result(u, a) = "Ok" =>
                      /\ ~pool.paused
                      /\ \/ pool.status = "Open"
                               /\ now <= pool.start_time + pool.duration
                         \/ pool.status = "Locked"
                               /\ now < pool.lock_start_time + pool.lock_duration
                /\ pool.status \in LockedOrLater \ {"Locked"} =>
                      donate_result(u, a) # "Ok")
    /\ [][DonateStep =>
            \E a \in DonateArgs :
                /\ donate_result(pool.creator, a) = "Ok"
                /\ pool'.total_amount = pool.total_amount + a
                /\ pool'.total_volume = pool.total_volume + a
                /\ pool_token' = pool_token + a
                /\ participants' = participants]_vars

\* A donation has been taken by a full, Locked pool before the end of the
\* lock.
C18_Witness ==
    /\ last = "donate" /\ pool.status = "Locked"
    /\ now < pool.lock_start_time + pool.lock_duration
    /\ pool.total_donations = 1
    /\ participants.count = pool.max_participants
    /\ pool.total_amount = participants.count * pool.amount + MinDonateNative + 9999
    /\ pool_token = pool.total_amount

-----------------------------------------------------------------------------
(* Randomness: request and selection *)

\* C19: the pool is WinnerSelected only after exactly one successful
\* request_randomness: request_randomness succeeds only in status Unlocked
\* with no oracle reference set, hence at most once, and select_winner
\* never succeeds while the status is Unlocked.
C19_WinnerOnlyAfterOneRequest ==
    /\ ledger.requests <= 1
    /\ pool.status = "WinnerSelected" => ledger.requests = 1
    /\ Loaded =>
          \A u \in Pubkeys, rk \in RandomnessArgs :
              /\ request_randomness_result(u, rk) = "Ok" =>
                    /\ pool.status = "Unlocked"
                    /\ pool.randomness_account = ZERO_PUBKEY
                    /\ ledger.requests = 0
              /\ pool.status = "Unlocked" => select_winner_result(u, rk) # "Ok"

\* A winner has been selected from the value revealed by the oracle
\* account named in the one request.
C19_Witness ==
    /\ pool.status = "WinnerSelected" /\ last = "select_winner"
    /\ ledger.requests = 1
    /\ pool.randomness_account \in RandAccounts
    /\ pool.randomness = randomness_data[pool.randomness_account].value
    /\ InRegistry(pool.winner)

\* C20: on a pool that is not paused and whose winner is still to be
\* selected, select_winner fails with RandomnessExpired whenever the slot
\* is greater than the recorded commit slot plus 3000; it fails whenever
\* the supplied randomness account differs from the oracle account the
\* pool committed to, and whenever the supplied account has revealed an
\* all-zero value.
C20_SelectRejectsStaleOrForeignRandomness ==
    Loaded /\ ~pool.paused
           /\ pool.status \in {"Unlocked", "RandomnessCommitted", "RandomnessRevealed"} =>
        \A u \in Pubkeys, rk \in RandomnessArgs :
            /\ pool.randomness_commit_slot # 0
                  /\ slot > pool.randomness_commit_slot + RANDOMNESS_MAX_AGE_SLOTS
                => select_winner_result(u, rk) = "RandomnessExpired"
            /\ pool.randomness_account \in RandAccounts
                  /\ rk # pool.randomness_account
                => select_winner_result(u, rk) # "Ok"
            /\ rk \in RandAccounts /\ ~select_winner_is_mock
                  /\ randomness_data[rk].reveal_slot # 0
                  /\ randomness_data[rk].value = 0
                => select_winner_result(u, rk) # "Ok"

\* C21: the emergency branch of select_winner (the supplied oracle account
\* has not revealed and the value is derived from the pool id, the slot
\* and the creator) succeeds only if the caller is the operator or the
\* creator and now > unlock_time + EMERGENCY_DELAY; for any other caller
\* and at any earlier time it fails.
C21_EmergencyRevealGuards ==
    Loaded =>
        \A u \in Pubkeys, rk \in RandomnessArgs :
            select_winner_is_emergency(rk) =>
                /\ select_winner_result(u, rk) = "Ok" =>
                      /\ u = pool.dev_wallet \/ u = pool.creator
                      /\ now > pool.unlock_time + EMERGENCY_DELAY
                /\ ~(u = pool.dev_wallet \/ u = pool.creator)
                        \/ now <= pool.unlock_time + EMERGENCY_DELAY
                    => select_winner_result(u, rk) # "Ok"

\* In a pool whose creator is not the operator the winner has been selected by
\* the emergency branch, after the emergency delay.
C21_Witness ==
    /\ last = "select_winner_emergency" /\ pool.status = "WinnerSelected"
    /\ pool.creator # pool.dev_wallet
    /\ now > pool.unlock_time + EMERGENCY_DELAY
    /\ pool.randomness_account = ZERO_PUBKEY
    /\ pool.randomness # 0

-----------------------------------------------------------------------------
(* The index chosen by select_winner as a function of the participant     *)
(* count and the revealed value: the pools that wait for select_winner,   *)
(* over every capacity and a range of revealed values.  Each is the state *)
(* reached by create_pool, join_pool up to capacity, unlock_pool, an      *)
(* oracle commit, request_randomness and an oracle reveal.                *)

WinnerCounts == 2 .. MAX_PARTICIPANTS
WinnerOracleValues == {1, 2, 3, 255, 256, 4099, 65520, 1000003}

\* The registry of a full pool: the creator followed by the joiners.
FullList ==
    <<"A", "B", "D", "M03", "M04", "M05", "M06", "M07", "M08", "M09", "M10", "M11",
      "M12", "M13", "M14", "M15", "M16", "M17", "M18", "M19">>

FilledList(n) ==
    [i \in 0 .. (MAX_PARTICIPANTS - 1) |->
        IF i < n THEN FullList[i + 1] ELSE ZERO_PUBKEY]

CommittedPool(n) ==
    LET p0 == [ NoPool EXCEPT
                  !.pool_id = HashPrefix(<<Salt, GenesisSlot % 65521, PubkeyBytes("A")>>),
                  !.salt = Salt,
                  !.creator = "A",
                  !.start_time = Genesis,
                  !.duration = POOL_OPEN_DURATION,
                  !.expire_time = Genesis + POOL_OPEN_DURATION,
                  !.max_participants = n,
                  !.lock_duration = MIN_LOCK_DURATION,
                  !.lock_start_time = Genesis,
                  !.unlock_time = Genesis + MIN_LOCK_DURATION,
                  !.amount = MinNative,
                  !.total_amount = n * MinNative,
                  !.total_volume = n * MinNative,
                  !.total_joins = n,
                  !.dev_wallet = "D",
                  !.dev_fee_bps = 500,
                  !.burn_fee_bps = 100,
                  !.treasury_wallet = "T",
                  !.treasury_fee_bps = 200,
                  !.randomness_account = "R1",
                  !.randomness_commit_slot = GenesisSlot,
                  !.status = "RandomnessCommitted",
                  !.initialized = TRUE ]
    IN [p0 EXCEPT !.config_hash = ConfigHash(p0)]

WinnerInit ==
    \E n \in WinnerCounts, value \in WinnerOracleValues :
        /\ pool = CommittedPool(n)
        /\ participants = [list |-> FilledList(n), count |-> n]
        /\ pool_token = n * MinNative
        /\ reclaimed = FALSE
        /\ now = Genesis + MIN_LOCK_DURATION
        /\ slot = GenesisSlot
        /\ randomness_data =
              [r \in RandAccounts |->
                  IF r \in FreshRandAccounts
                  THEN [seed_slot |-> GenesisSlot, reveal_slot |-> GenesisSlot,
                        value |-> value]
                  ELSE OldRandomness]
        /\ ledger = [in |-> n * MinNative, out |-> 0, burned |-> 0,
                     spoofed |-> 0, force_expires |-> 0, requests |-> 1]
        /\ received = [k \in Pubkeys |-> 0]
        /\ last = "request_randomness"
        /\ call = NoCall

WinnerNext == \E user \in Pubkeys, rk \in RandomnessArgs : select_winner(user, rk)

WinnerSpec == WinnerInit /\ [][WinnerNext]_vars

\* A step in which select_winner has succeeded.
SelectStep == pool.status # "WinnerSelected" /\ pool'.status = "WinnerSelected"

\* C22: for every participant count and every resolved value, a
\* successful select_winner takes index = normalized mod count, which
\* lies in 0 .. count - 1, stores winner = list[index] and the resolved
\* value, and sets status to WinnerSelected; whenever the status is
\* WinnerSelected the stored winner is one of list[0 .. count - 1] and is
\* not the zero identity.
C22_WinnerIsARegisteredParticipant ==
    /\ [][SelectStep =>
            \E rk \in RandAccounts :
                LET value == randomness_data[rk].value
                    index == HashPrefix(<<pool.pool_id, value>>) % participants.count
                IN /\ 0 <= index /\ index < participants.count
                   /\ pool'.winner = participants.list[index]
                   /\ pool'.randomness = value
                   /\ participants' = participants]_vars
    /\ [](pool.status = "WinnerSelected" =>
            /\ \E i \in 0 .. (participants.count - 1) :
                  participants.list[i] = pool.winner
            /\ pool.winner # ZERO_PUBKEY)

\* In a pool of 20 participants the winner is one that sits beyond the
\* third slot.
C22_Witness ==
    /\ pool.status = "WinnerSelected" /\ last = "select_winner"
    /\ participants.count = MAX_PARTICIPANTS
    /\ \E i \in 3 .. (participants.count - 1) : participants.list[i] = pool.winner

-----------------------------------------------------------------------------
(* Cancellation, refunds and closing *)

\* A step in which cancel_pool, admin_close_pool or sweep_expired_pool has
\* succeeded.
CancelStep ==
    /\ last' \in {"cancel_pool", "admin_close_pool", "sweep_expired_pool"}
    /\ pool' # pool

\* C23: cancel_pool succeeds only for the creator, admin_close_pool only
\* for the operator and sweep_expired_pool only for the operator and only
\* when now > expire_time + SWEEP_DELAY or allow_mock is set; each succeeds
\* only when the status is Open and the pool is not paused; a successful
\* one sets status to Cancelled, status_reason to owner-cancelled,
\* admin-closed or expired respectively and close_time to the current
\* time, and leaves the escrow balance, total_amount and the registry
\* unchanged.
C23_CancellationGuardsAndFrame ==
    /\ [](Loaded =>
            \A u \in Pubkeys :
                /\ cancel_pool_result(u) = "Ok" =>
                      u = pool.creator /\ pool.status = "Open" /\ ~pool.paused
                /\ admin_close_pool_result(u) = "Ok" =>
                      u = pool.dev_wallet /\ pool.status = "Open" /\ ~pool.paused
                /\ sweep_expired_pool_result(u) = "Ok" =>
                      /\ u = pool.dev_wallet /\ pool.status = "Open" /\ ~pool.paused
                      /\ now > pool.expire_time + SWEEP_DELAY \/ pool.allow_mock)
    /\ [][CancelStep =>
            /\ pool.status = "Open"
            /\ pool'.status = "Cancelled"
            /\ pool'.status_reason =
                  ( IF last' = "cancel_pool" THEN REASON_CANCELLED
                    ELSE IF last' = "admin_close_pool" THEN REASON_ADMIN_CLOSED
                    ELSE REASON_EXPIRED )
            /\ pool'.close_time = now'
            /\ pool_token' = pool_token
            /\ pool'.total_amount = pool.total_amount
            /\ participants' = participants]_vars

\* A pool without the permissive flag, holding two stakes, has been swept
\* after the sweep delay.
C23_Witness ==
    /\ last = "sweep_expired_pool" /\ pool.status = "Cancelled"
    /\ ~pool.allow_mock
    /\ pool.status_reason = REASON_EXPIRED
    /\ pool.close_time = now /\ now > pool.expire_time + SWEEP_DELAY
    /\ participants.count = 2 /\ pool_token >= 2 * pool.amount

\* A step in which claim_refund, invoked by an identity that is in the
\* registry, has succeeded.
RefundStep ==
    /\ \/ last' = "claim_refund"
       \/ last' = "claim_refund_forfeit" /\ InRegistry(pool.dev_wallet)
    /\ participants' # participants

\* C24: a successful claim_refund by a participant other than the creator
\* transfers exactly the stake to the claimant and burns nothing; a
\* successful claim_refund by the creator burns floor(stake / 20) and
\* transfers stake - floor(stake / 20) to the creator; in both cases the
\* escrow balance falls by exactly one stake.
C24_RefundAmounts ==
    [][RefundStep =>
        \E u \in Pubkeys :
            LET burnt == IF u = pool.creator
                         THEN pool.amount \div CREATOR_PENALTY_DIVISOR ELSE 0
            IN /\ InRegistry(u) /\ ~InRegistry(u)'
               /\ received' = Credit(received, u, pool.amount - burnt)
               /\ ledger'.burned = ledger.burned + burnt
               /\ pool_token' = pool_token - pool.amount]_vars

\* C25: a successful claim_refund by the participant at index i leaves
\* the registry equal to the previous list with element i removed: the
\* entries before i stay, the entries after i move down by one in the same
\* order, the last used slot is zeroed and count drops by one; a
\* claim_refund by the same identity that follows it directly fails with
\* NotParticipant.
C25_RefundRemovesClaimant ==
    [][RefundStep =>
        \E i \in 0 .. (participants.count - 1), u \in Pubkeys :
            LET count == participants.count
            IN /\ participants.list[i] = u
               /\ participants'.count = count - 1
               /\ \A j \in DOMAIN participants.list :
                     participants'.list[j] =
                        ( IF j < i THEN participants.list[j]
                          ELSE IF j < count - 1 THEN participants.list[j + 1]
                          ELSE IF j = count - 1 THEN ZERO_PUBKEY
                          ELSE participants.list[j] )
               /\ claim_refund_result(u)' = "NotParticipant"]_vars

\* A step in which finalize_forfeited_pool, in either implementation, has
\* succeeded.
FinalizeStep ==
    /\ last' \in {"finalize_forfeited_pool", "finalize_forfeited_pool_server"}
    /\ pool.status = "Cancelled" /\ pool'.status = "Closed"

\* C26: finalize_forfeited_pool succeeds only if the status is Cancelled,
\* the caller is the operator or the treasury identity, and either
\* now > close_time + FORFEIT_DELAY or allow_mock is set; a successful one
\* moves the whole remaining escrow balance to the treasury, leaves the
\* registry with count 0 and every entry zeroed, and sets status to
\* Closed, after which claim_refund fails with the status error for every
\* caller.
C26_ForfeitureFinalize ==
    /\ [](Loaded =>
            \A u \in Pubkeys :
                finalize_forfeited_pool_result(u) = "Ok"
                    \/ finalize_forfeited_pool_server_result(u) = "Ok"
                => /\ pool.status = "Cancelled"
                   /\ u = pool.dev_wallet \/ u = pool.treasury_wallet
                   /\ now > pool.close_time + FORFEIT_DELAY \/ pool.allow_mock)
    /\ [][FinalizeStep =>
            /\ received' = Credit(received, pool.treasury_wallet, pool_token)
            /\ pool_token' = 0
            /\ participants'.count = 0
            /\ \A i \in DOMAIN participants.list :
                  participants'.list[i] = ZERO_PUBKEY
            /\ \A u \in Pubkeys :
                  claim_refund_result(u)' = "InvalidPoolStatus"]_vars

\* C27: Closed is terminal and is entered only from Ended or Cancelled: no
\* step takes a pool that is Open, Locked, Unlocked, RandomnessCommitted,
\* RandomnessRevealed or WinnerSelected to Closed, and no step takes a
\* Closed pool to any other status.
C27_ClosedIsTerminal ==
    [][/\ pool'.status = "Closed" =>
            pool.status \in {"Ended", "Cancelled", "Closed"}
       /\ pool.status = "Closed" => pool'.status = "Closed"]_vars

\* A pool that was paid out to its winner has been closed by claim_rent,
\* and its accounts have been reclaimed.
C27_Witness ==
    /\ pool.status = "Closed" /\ last = "claim_rent"
    /\ pool.winner # ZERO_PUBKEY /\ pool.end_time # 0
    /\ reclaimed

\* C28: a step takes a Cancelled pool to Closed, whichever operation and
\* caller, only if now > close_time + FORFEIT_DELAY or allow_mock is set;
\* a step takes an Ended pool to Closed only if the registry is empty.
C28_ClosingConditions ==
    [][/\ pool.status = "Cancelled" /\ pool'.status = "Closed" =>
            now > pool.close_time + FORFEIT_DELAY \/ pool.allow_mock
       /\ pool.status = "Ended" /\ pool'.status = "Closed" =>
            participants.count = 0]_vars

-----------------------------------------------------------------------------
(* The fee check of create_pool as a function of the three u16 rates: the   *)
(* pools that create_pool makes from the initial state, over a range of     *)
(* rates that spans the u16 values.                                         *)

FeeRateArgs == {0, 1, 200, 5000, 10000, 25536, 30000, U16 - 1}
CreateFeeArgs == FeeRateArgs \X FeeRateArgs \X FeeRateArgs

CreateNext ==
    \E user \in Creators, dev \in DevWallets, tr \in TreasuryWallets,
       fees \in CreateFeeArgs, am \in AllowMockArgs, oc \in OverflowChecks :
        create_pool(user, 3, MIN_LOCK_DURATION, MinNative, dev, fees, tr, am, oc)

CreateSpec == Init /\ [][CreateNext]_vars

-----------------------------------------------------------------------------
(* set_lock_duration *)

\* A step in which set_lock_duration has succeeded.
SetLockDurationStep ==
    /\ last' = "set_lock_duration"
    /\ last # "set_lock_duration" \/ pool' # pool

\* C30: set_lock_duration succeeds only if the caller is the creator, the
\* pool is Open and not paused, the registry holds exactly one entry, the
\* creator, and the new value is at least the old lock_duration, at least
\* 60 and at most 43200; a successful one changes lock_duration and
\* nothing else.
C30_SetLockDurationGuardsAndFrame ==
    /\ [](Loaded =>
            \A u \in Pubkeys, nd \in NewLockDurationArgs :
                set_lock_duration_result(u, nd) = "Ok" =>
                    /\ u = pool.creator
                    /\ pool.status = "Open" /\ ~pool.paused
                    /\ participants.count = 1
                    /\ participants.list[0] = pool.creator
                    /\ pool.lock_duration <= nd
                    /\ MIN_LOCK_DURATION <= nd /\ nd <= MAX_LOCK_DURATION)
    /\ [][SetLockDurationStep =>
            /\ \E nd \in NewLockDurationArgs :
                  /\ set_lock_duration_result(pool.creator, nd) = "Ok"
                  /\ pool' = [pool EXCEPT !.lock_duration = nd]
            /\ participants' = participants
            /\ pool_token' = pool_token
            /\ reclaimed' = reclaimed]_vars

\* The creator has raised the lock duration of a pool nobody else has
\* joined from 60 to 120.
C30_Witness ==
    /\ last = "set_lock_duration" /\ pool.status = "Open"
    /\ pool.lock_duration = 120
    /\ participants.count = 1 /\ participants.list[0] = pool.creator

-----------------------------------------------------------------------------
(* Transactions step by step.  An instruction is executed by the host as  *)
(* a transaction: the handler's writes and its calls of the token program *)
(* happen in the order of the source, and when the handler returns an     *)
(* error (or panics) the host discards every write made since the         *)
(* transaction began.  `call.stack` holds the frames of the instruction   *)
(* in flight, the outermost first; `call.result` is the outcome of the    *)
(* last transaction that ended.  join_pool, select_winner and             *)
(* claim_refund are executed in steps; the other instructions run between *)
(* transactions as above.                                                 *)

\* Frames of claim_refund that may be in flight at once: the outer call
\* and one call entered from within its transfer.
MaxDepth == 2

\* Whether the token program carries out a transfer it is asked for.
TransferOutcomes == {TRUE, FALSE}

\* The accounts as a transaction has written them so far.
Written ==
    [ pool |-> pool, participants |-> participants, pool_token |-> pool_token,
      received |-> received, ledger |-> ledger ]

\* The accounts as they were when the transaction in flight began.
AtEntry == IF call.stack = << >> THEN Written ELSE call.stack[1].saved

\* A host that keeps the writes of a failed transaction.
Restored_keeping_writes(saved, written) == written

\* What the host leaves of a failed transaction: the accounts as saved.
Restored(saved, written) == saved

Outcome(op, user, err) == [op |-> op, user |-> user, err |-> err]

\* The instruction in flight returns Err(err): the transaction fails.
Abort(op, user, err) ==
    LET kept == Restored(AtEntry, Written)
    IN /\ pool' = kept.pool
       /\ participants' = kept.participants
       /\ pool_token' = kept.pool_token
       /\ received' = kept.received
       /\ ledger' = kept.ledger
       /\ call' = [stack |-> << >>, result |-> Outcome(op, user, err)]
       /\ UNCHANGED << reclaimed, now, slot, randomness_data, last >>

Top == call.stack[Len(call.stack)]

InFlight(op, pc) ==
    call.stack # << >> /\ Top.op = op /\ Top.pc = pc

Push(frame) == call' = [call EXCEPT !.stack = Append(@, frame)]

Goto(pc) == call' = [call EXCEPT !.stack[Len(call.stack)].pc = pc]

\* The frame on top returns Ok(()): the transaction commits when it was the
\* outermost one.
Return(op) ==
    IF Len(call.stack) = 1
    THEN /\ call' = [stack |-> << >>, result |-> Outcome(op, Top.user, "Ok")]
         /\ last' = op
    ELSE /\ call' = [call EXCEPT !.stack = SubSeq(@, 1, Len(@) - 1)]
         /\ UNCHANGED last

\* join_pool.rs:53-161: the checks, then the transfer of the stake.
join_pool_begin(user, amount, transfer_ok) ==
    /\ call.stack = << >>
    /\ IF join_pool_result(user, amount) # "Ok"
       THEN Abort("join_pool", user, join_pool_result(user, amount))
       ELSE IF ~transfer_ok THEN Abort("join_pool", user, "TransferFailed")
       ELSE /\ pool_token' = pool_token + amount
            /\ ledger' = [ledger EXCEPT !.in = @ + amount]
            /\ Push([ op |-> "join_pool", user |-> user, pc |-> "transferred",
                      index |-> participants.count, amount |-> amount,
                      saved |-> Written ])
            /\ UNCHANGED << pool, participants, reclaimed, now, slot,
                            randomness_data, received, last >>

\* join_pool.rs:163-165: the registry append.
join_pool_append ==
    /\ InFlight("join_pool", "transferred")
    /\ participants' =
          [ list |-> [participants.list EXCEPT ![Top.index] = Top.user],
            count |-> Top.index + 1 ]
    /\ Goto("appended")
    /\ UNCHANGED << pool, pool_token, reclaimed, now, slot, randomness_data,
                    ledger, received, last >>

\* join_pool.rs:167-212: the accounting and the lock at capacity.  The
\* three checked_add stay far below 2^64 for every total of this model.
join_pool_account ==
    /\ InFlight("join_pool", "appended")
    /\ LET full == reaches_capacity(participants.count)
       IN pool' = [ pool EXCEPT
                      !.total_amount = @ + Top.amount,
                      !.total_volume = @ + Top.amount,
                      !.total_joins = @ + 1,
                      !.status = IF full THEN "Locked" ELSE @,
                      !.status_reason = IF full THEN REASON_MAX_REACHED ELSE @,
                      !.lock_start_time = IF full THEN now ELSE @ ]
    /\ Return("join_pool")
    /\ UNCHANGED << participants, pool_token, reclaimed, now, slot,
                    randomness_data, ledger, received >>

\* select_winner.rs:30-178: the checks, the resolved value, and the first
\* writes: randomness_account on the emergency branch (line 156) and the
\* status RandomnessRevealed (lines 97, 178).
select_winner_begin(user, rk) ==
    /\ call.stack = << >>
    /\ IF select_winner_result(user, rk) # "Ok"
       THEN Abort("select_winner", user, select_winner_result(user, rk))
       ELSE /\ pool' = [ pool EXCEPT
                           !.randomness_account =
                               IF select_winner_is_emergency(rk)
                               THEN ZERO_PUBKEY ELSE @,
                           !.status = "RandomnessRevealed" ]
            /\ Push([ op |-> "select_winner", user |-> user, pc |-> "revealed",
                      index |-> winner_index(rk),
                      amount |-> ResolvedRandomness(rk),
                      emergency |-> select_winner_is_emergency(rk),
                      saved |-> Written ])
            /\ UNCHANGED << participants, pool_token, reclaimed, now, slot,
                            randomness_data, ledger, received, last >>

\* The writes of the winner without the write of the status.
select_winner_writes_without_status(p, winner_pubkey, randomness_u128) ==
    [ p EXCEPT !.winner = winner_pubkey,
               !.randomness = randomness_u128,
               !.status_reason = 0 ]

\* select_winner.rs:204-207
select_winner_writes(p, winner_pubkey, randomness_u128) ==
    [ p EXCEPT !.winner = winner_pubkey,
               !.randomness = randomness_u128,
               !.status = "WinnerSelected",
               !.status_reason = 0 ]

\* select_winner.rs:196-207: the bound check on the index and the writes
\* of the winner.
select_winner_store ==
    /\ InFlight("select_winner", "revealed")
    /\ IF ~(Top.index < participants.count)
       THEN Abort("select_winner", Top.user, "InvalidWinnerAccount")
       ELSE /\ pool' = select_winner_writes(pool, participants.list[Top.index],
                                            Top.amount)
            /\ Return(IF Top.emergency THEN "select_winner_emergency"
                      ELSE "select_winner")
            /\ UNCHANGED << participants, pool_token, reclaimed, now, slot,
                            randomness_data, ledger, received >>

\* The checks of claim_refund that precede its calls of the token program
\* (claim_refund.rs:66-178).
claim_refund_checks(user) ==
    IF claim_refund_result(user) = "TokenInsufficientFunds" THEN "Ok"
    ELSE claim_refund_result(user)

\* claim_refund.rs:64-203, entered as a transaction of its own or from
\* within the transfer of a claim_refund in flight: the checks, then the
\* whole forfeit branch (lines 106-150) or the burn of the creator's
\* penalty (lines 184-203).
claim_refund_begin(user) ==
    /\ \/ call.stack = << >>
       \/ InFlight("claim_refund", "transferring") /\ Len(call.stack) < MaxDepth
    /\ IF claim_refund_checks(user) # "Ok"
       THEN Abort("claim_refund", user, claim_refund_checks(user))
       ELSE IF user = pool.dev_wallet
       THEN /\ received' = Credit(received, pool.treasury_wallet, pool_token)
            /\ ledger' = [ledger EXCEPT !.out = @ + pool_token]
            /\ pool_token' = 0
            /\ participants' = [participants EXCEPT !.count = 0]
            /\ IF call.stack = << >>
               THEN /\ call' = [ stack |-> << >>,
                              result |-> Outcome("claim_refund", user, "Ok") ]
                    /\ last' = "claim_refund_forfeit"
               ELSE UNCHANGED << call, last >>
            /\ UNCHANGED << pool, reclaimed, now, slot, randomness_data >>
       ELSE IF pool_token < refund_burn_amount(user)
       THEN Abort("claim_refund", user, "TokenInsufficientFunds")
       ELSE /\ pool_token' = pool_token - refund_burn_amount(user)
            /\ ledger' = [ledger EXCEPT !.burned = @ + refund_burn_amount(user)]
            /\ Push([ op |-> "claim_refund", user |-> user, pc |-> "burned",
                      index |-> IndexOf(user), amount |-> refund_amount(user),
                      saved |-> Written ])
            /\ UNCHANGED << pool, participants, reclaimed, now, slot,
                            randomness_data, received, last >>

\* claim_refund.rs:205-218: the transfer of the refund is handed to the
\* token program, which carries it out or refuses it.
claim_refund_transfer(transfer_ok) ==
    /\ InFlight("claim_refund", "burned")
    /\ IF ~transfer_ok \/ pool_token < Top.amount
       THEN Abort("claim_refund", Top.user,
                  IF transfer_ok THEN "TokenInsufficientFunds"
                  ELSE "TransferFailed")
       ELSE /\ pool_token' = pool_token - Top.amount
            /\ received' = Credit(received, Top.user, Top.amount)
            /\ ledger' = [ledger EXCEPT !.out = @ + Top.amount]
            /\ Goto("transferring")
            /\ UNCHANGED << pool, participants, reclaimed, now, slot,
                            randomness_data, last >>

\* claim_refund.rs:228-237: the transfer has returned; the entry found
\* before the transfer is removed, with the count as it is now.  With a
\* count of 0 the subtraction count - 1 or the index list[i + 1] panics.
claim_refund_remove ==
    /\ InFlight("claim_refund", "transferring")
    /\ IF participants.count = 0
       THEN Abort("claim_refund", Top.user, "Panic")
       ELSE /\ participants' =
                  [ list |-> RemoveAt(participants.list, participants.count,
                                      Top.index),
                    count |-> participants.count - 1 ]
            /\ Return("claim_refund")
            /\ UNCHANGED << pool, pool_token, reclaimed, now, slot,
                            randomness_data, ledger, received >>

\* The instructions that take a pool to the statuses in which join_pool,
\* select_winner and claim_refund are called, each a transaction of its own.
TxBetween ==
    \/ \E am \in AllowMockArgs :
          create_pool("A", 3, MIN_LOCK_DURATION, MinNative, "D", <<500, 100, 200>>, "T", am, TRUE)
    \/ \E user \in Pubkeys, amount \in DonateArgs : donate(user, amount)
    \/ \E user \in Pubkeys : unlock_pool(user)
    \/ \E user \in Pubkeys, rk \in RandomnessArgs : request_randomness(user, rk)
    \/ \E user \in Pubkeys : cancel_pool(user)
    \/ \E user \in Pubkeys : admin_close_pool(user)
    \/ \E t \in Deadlines : advance_time(t)
    \/ \E r \in FreshRandAccounts : oracle_commit(r)
    \/ \E r \in FreshRandAccounts, v \in OracleValues : oracle_reveal(r, v)

TxNext ==
    \/ call.stack = << >> /\ TxBetween
    \/ \E user \in Joiners, amount \in JoinAmountArgs, ok \in TransferOutcomes :
          join_pool_begin(user, amount, ok)
    \/ join_pool_append
    \/ join_pool_account
    \/ \E user \in Pubkeys, rk \in RandomnessArgs : select_winner_begin(user, rk)
    \/ select_winner_store
    \/ \E user \in Pubkeys : claim_refund_begin(user)
    \/ \E ok \in TransferOutcomes : claim_refund_transfer(ok)
    \/ claim_refund_remove

TxSpec == Init /\ [][TxNext]_vars

-----------------------------------------------------------------------------
(* C31 *)

\* No transaction is in flight.
AtRest == call.stack = << >>

\* A step in which a transaction ends in failure.
FailureStep ==
    call' # call /\ call'.stack = << >> /\ call'.result.err # "Ok"

\* C31: a failed join_pool, select_winner or claim_refund, whatever check,
\* panic or refused transfer made it fail and however many writes
\* preceded the failure, leaves the Pool record, the registry and the
\* escrow balance as they were when the transaction began; and between
\* transactions no half-written state is seen: the registry count equals
\* the number of recorded joins while the pool is Open or Locked, and the
\* status is never RandomnessRevealed.
C31_FailureLeavesNoWrite ==
    /\ [](AtRest /\ Loaded
            => /\ pool.status # "RandomnessRevealed"
               /\ pool.status \in {"Open", "Locked"}
                    => participants.count = pool.total_joins)
    /\ [][FailureStep
            => /\ pool' = AtEntry.pool
               /\ participants' = AtEntry.participants
               /\ pool_token' = AtEntry.pool_token]_vars

\* The creator's claim_refund has burned the penalty, the token program
\* has then refused the transfer, and the escrow holds the penalty again.
C31_Witness ==
    /\ AtRest
    /\ call.result = Outcome("claim_refund", pool.creator, "TransferFailed")
    /\ pool.status = "Cancelled"
    /\ participants.count = 1
    /\ ledger.burned = 0
    /\ pool_token = pool.amount

-----------------------------------------------------------------------------
(* C32 *)

\* C32: while a claim_refund is between its transfer and its registry
\* update the in-progress flag is set, so that a claim_refund entered from
\* within the transfer fails; and no transaction, nested claims included,
\* leaves an identity with more than one stake withdrawn.
C32_ReentrancyGuard ==
    /\ InFlight("claim_refund", "transferring") => pool.processing
    /\ AtRest => \A u \in Joiners : received[u] <= pool.amount

-----------------------------------------------------------------------------
(* C33 *)

\* The instant at which the pool was cancelled or ended.
ClosedOutAt == IF pool.status = "Ended" THEN pool.end_time ELSE pool.close_time

\* C33: claim_rent by the operator and the operator branch of claim_refund
\* succeed only if now > (the instant the pool was cancelled or ended) +
\* FORFEIT_DELAY, and claim_rent by a caller that is neither the creator
\* nor the operator fails, whatever account it names as the recipient.
C33_OperatorCloseOutIsDelayGated ==
    Loaded =>
        /\ \A target \in Pubkeys :
              claim_rent_result(pool.dev_wallet, target) = "Ok"
                  => now > ClosedOutAt + FORFEIT_DELAY
        /\ claim_refund_result(pool.dev_wallet) = "Ok"
              => now > ClosedOutAt + FORFEIT_DELAY
        /\ \A user \in Pubkeys \ {pool.creator, pool.dev_wallet}, target \in Pubkeys :
              claim_rent_result(user, target) # "Ok"

-----------------------------------------------------------------------------
(* C34 *)

\* C34: in every state reached from create_pool by the program's own
\* instructions the stored config_hash is the hash of the current
\* configuration fields, so that join_pool, donate and select_winner
\* never fail with ConfigMismatch.
C34_ConfigHashIsCurrent ==
    pool.initialized =>
        /\ pool.config_hash = ConfigHash(pool)
        /\ \A user \in Pubkeys, amount \in JoinAmountArgs :
              join_pool_result(user, amount) # "ConfigMismatch"
        /\ \A user \in Pubkeys, amount \in DonateArgs :
              donate_result(user, amount) # "ConfigMismatch"
        /\ \A user \in Pubkeys, rk \in RandomnessArgs :
              select_winner_result(user, rk) # "ConfigMismatch"

-----------------------------------------------------------------------------
(* C35 *)

\* C35: in every state in which pause_pool succeeds on a pool that is not
\* paused (unpause_pool then succeeds as well: it has the same checks and
\* pause_pool writes none of the fields they read), the pool written by
\* pause_pool followed by unpause_pool is the pool before the pause, in
\* status, status_reason and every other field; in particular a Cancelled
\* pool has its cancellation reason afterwards.
C35_PauseUnpauseRoundTrip ==
    (Loaded /\ ~pool.paused /\ pause_pool_result(pool.dev_wallet) = "Ok")
        => /\ unpause_pool_writes(pause_pool_writes(pool)) = pool
           /\ pool.status = "Cancelled"
                => unpause_pool_writes(pause_pool_writes(pool)).status_reason
                      \in {REASON_CANCELLED, REASON_ADMIN_CLOSED, REASON_EXPIRED}

-----------------------------------------------------------------------------
(* C36 *)

\* C36: in every Cancelled state the escrow balance is at least the
\* registry count times the stake, whoever has claimed so far and
\* whatever was donated before the cancellation.
C36_CancelledEscrowCoversRefunds ==
    (pool.initialized /\ pool.status = "Cancelled")
        => pool_token >= participants.count * pool.amount

\* A pool that took a donation, filled up to two participants and was
\* cancelled; the creator has claimed and the other participant has not.
C36_Witness ==
    /\ last = "claim_refund"
    /\ pool.status = "Cancelled"
    /\ pool.total_donations = 1
    /\ participants.count = 1
    /\ ~InRegistry(pool.creator)
    /\ ledger.burned = refund_burn_amount(pool.creator)

-----------------------------------------------------------------------------
(* C37 *)

\* C37: an Open pool has at least one participant, fewer than
\* max_participants, and lock_start_time = 0; a Locked, Unlocked,
\* RandomnessCommitted or WinnerSelected pool has exactly max_participants
\* participants and lock_start_time # 0.
C37_StatusAndRegistryCoupled ==
    pool.initialized =>
        /\ pool.status = "Open"
              => /\ 1 <= participants.count
                 /\ participants.count < pool.max_participants
                 /\ pool.lock_start_time = 0
        /\ pool.status \in {"Locked", "Unlocked", "RandomnessCommitted", "WinnerSelected"}
              => /\ participants.count = pool.max_participants
                 /\ pool.lock_start_time # 0

\* A full pool whose winner has been selected, not yet paid out.
C37_Witness ==
    /\ pool.status = "WinnerSelected"
    /\ participants.count = pool.max_participants
    /\ pool.lock_start_time # 0
    /\ InRegistry(pool.winner)

-----------------------------------------------------------------------------
(* The fee computation of payout_winner on 64-bit totals.  A u64 is held  *)
(* as four 16-bit limbs, least significant first, so that every           *)
(* intermediate value stays inside the model checker's integers; the      *)
(* checked operations report the overflow of the 64 bits.  The pools are  *)
(* the settled pools of the fee split above, with totals of up to 2^64 -  *)
(* 1 base units: a donation can be any amount its donor holds, and a mint *)
(* of 9 decimals reaches 10^16 base units with ten million tokens.        *)

ZeroLimbs == <<0, 0, 0, 0>>

\* u64::checked_mul by a u16 rate: None when the product needs a fifth limb.
checked_mul(x, b) ==
    LET p1 == x[1] * b
        p2 == x[2] * b + p1 \div U16
        p3 == x[3] * b + p2 \div U16
        p4 == x[4] * b + p3 \div U16
    IN [ value |-> <<p1 % U16, p2 % U16, p3 % U16, p4 % U16>>,
         overflow |-> p4 \div U16 > 0 ]

\* u64 division by a divisor below 2^15, limb by limb from the top.
div_limbs(x, d) ==
    LET c4 == x[4]
        c3 == (c4 % d) * U16 + x[3]
        c2 == (c3 % d) * U16 + x[2]
        c1 == (c2 % d) * U16 + x[1]
    IN <<c1 \div d, c2 \div d, c3 \div d, c4 \div d>>

\* u64::checked_add
checked_add(x, y) ==
    LET s1 == x[1] + y[1]
        s2 == x[2] + y[2] + s1 \div U16
        s3 == x[3] + y[3] + s2 \div U16
        s4 == x[4] + y[4] + s3 \div U16
    IN [ value |-> <<s1 % U16, s2 % U16, s3 % U16, s4 % U16>>,
         overflow |-> s4 \div U16 > 0 ]

\* u64::checked_sub: None when y > x.
checked_sub(x, y) ==
    LET d1 == x[1] - y[1]
        d2 == x[2] - y[2] - (IF d1 < 0 THEN 1 ELSE 0)
        d3 == x[3] - y[3] - (IF d2 < 0 THEN 1 ELSE 0)
        d4 == x[4] - y[4] - (IF d3 < 0 THEN 1 ELSE 0)
    IN [ value |-> <<d1 % U16, d2 % U16, d3 % U16, d4 % U16>>,
         overflow |-> d4 < 0 ]

\* payout_winner.rs:165-167: total.checked_mul(bps as u64)
fee_product(total, bps) == checked_mul(total, bps)

\* payout_winner.rs:163-186 on a 64-bit total: the three shares, their sum
\* and the winner's amount, or the Overflow of the first checked operation
\* that has no result.
payout_amounts(total, fees) ==
    LET dev == div_limbs(fee_product(total, fees[1]).value, FEE_DENOMINATOR)
        burn == div_limbs(fee_product(total, fees[2]).value, FEE_DENOMINATOR)
        treasury == div_limbs(fee_product(total, fees[3]).value, FEE_DENOMINATOR)
        dev_burn == checked_add(dev, burn)
        paid_all == checked_add(dev_burn.value, treasury)
        winner == checked_sub(total, paid_all.value)
    IN [ result |->
            IF \E i \in 1 .. 3 : fee_product(total, fees[i]).overflow
            THEN "Overflow"
            ELSE IF dev_burn.overflow \/ paid_all.overflow THEN "Overflow"
            ELSE IF winner.overflow THEN "Overflow"
            ELSE "Ok",
         dev |-> dev, burn |-> burn, treasury |-> treasury,
         winner |-> winner.value ]

PoolFees == <<pool.dev_fee_bps, pool.burn_fee_bps, pool.treasury_fee_bps>>

\* payout_winner.rs:66-186 with the amounts in 64 bits.
payout_winner_wide_result(user, winner_pubkey) ==
    IF ~Loaded THEN "AccountNotInitialized"
    ELSE IF pool.paused THEN "Paused"
    ELSE IF pool.status # "WinnerSelected" THEN "InvalidPoolStatus"
    ELSE IF ~(participants.count > 0) THEN "NoParticipants"
    ELSE IF pool.winner = ZERO_PUBKEY THEN "NoWinnerSelected"
    ELSE IF pool.winner # winner_pubkey THEN "InvalidWinnerPubkey"
    ELSE IF ~PayoutTimedOut /\ user # pool.dev_wallet THEN "Unauthorized"
    ELSE IF ~escrow_matches_total THEN "SpoofedDonation"
    ELSE payout_amounts(pool.total_amount, PoolFees).result

CreditWide(rec, k, amount) == [rec EXCEPT ![k] = checked_add(@, amount).value]

\* payout_winner.rs:66-325 with the amounts in 64 bits: the four moves
\* empty the escrow up to the rounding dust, which is burnt.
payout_winner_wide(user, winner_pubkey) ==
    /\ payout_winner_wide_result(user, winner_pubkey) = "Ok"
    /\ LET a == payout_amounts(pool.total_amount, PoolFees)
           moved == checked_add(checked_add(a.winner, a.dev).value, a.treasury).value
       IN /\ received' = CreditWide(CreditWide(CreditWide(received,
                                winner_pubkey, a.winner),
                                pool.dev_wallet, a.dev),
                                pool.treasury_wallet, a.treasury)
          /\ ledger' = [ ledger EXCEPT
                           !.out = moved,
                           !.burned = checked_sub(pool_token, moved).value ]
    /\ pool_token' = ZeroLimbs
    /\ participants' = [participants EXCEPT !.count = 0]
    /\ pool' = [ pool EXCEPT !.end_time = now,
                             !.status_reason = 0,
                             !.total_amount = ZeroLimbs,
                             !.status = "Ended" ]
    /\ Done("payout_winner", user)
    /\ UNCHANGED << reclaimed, now, slot, randomness_data >>

WideTotals ==
    { <<23040, 610, 0, 0>>,              \* 40000000: two stakes
      <<19216, 15869, 0, 0>>,            \* 1040010000
      <<4299, 47815, 36280, 6>>,         \* 1844674407370955 = (2^64 - 1) div 10000
      <<4300, 47815, 36280, 6>>,         \* 1844674407370956
      <<20447, 38797, 4718, 131>>,       \* 36893488147419103 = (2^64 - 1) div 500
      <<20448, 38797, 4718, 131>>,       \* 36893488147419104
      <<0, 28609, 34546, 35>>,           \* 10^16
      <<0, 42852, 46771, 3552>>,         \* 10^18
      <<0, 0, 0, 32768>>,                \* 2^63
      <<65535, 65535, 65535, 65535>> }   \* 2^64 - 1

WideInit ==
    \E total \in WideTotals, fees \in FeeTriples, value \in FeeOracleValues :
        /\ pool = [ SettledPool(0, fees, value) EXCEPT
                      !.total_amount = total, !.total_volume = total,
                      !.total_donations = 1 ]
        /\ participants = [list |-> [ZeroList EXCEPT ![0] = "A", ![1] = "B"],
                           count |-> 2]
        /\ pool_token = total
        /\ reclaimed = FALSE
        /\ now = Genesis + MIN_LOCK_DURATION
        /\ slot = GenesisSlot
        /\ randomness_data =
              [r \in RandAccounts |->
                  IF r \in FreshRandAccounts
                  THEN [seed_slot |-> GenesisSlot, reveal_slot |-> GenesisSlot,
                        value |-> value]
                  ELSE OldRandomness]
        /\ ledger = [in |-> total, out |-> ZeroLimbs, burned |-> ZeroLimbs,
                     spoofed |-> 0, force_expires |-> 0, requests |-> 1]
        /\ received = [k \in Pubkeys |-> ZeroLimbs]
        /\ last = "select_winner"
        /\ call = NoCall

WideNext == \E user \in Pubkeys, w \in Pubkeys : payout_winner_wide(user, w)

WideSpec == WideInit /\ [][WideNext]_vars

\* C38: for every total that join_pool and donate can accumulate in the
\* u64 counter and every fee triple whose sum is at most 10000, the fee
\* computation of payout_winner has a result, and the payout of the
\* WinnerSelected pool succeeds for its operator.
C38_FeeComputationNeverOverflows ==
    (pool.status = "WinnerSelected"
        /\ pool.dev_fee_bps + pool.burn_fee_bps + pool.treasury_fee_bps <= MAX_FEE_BPS)
        => /\ payout_amounts(pool.total_amount, PoolFees).result = "Ok"
           /\ payout_winner_wide_result(pool.dev_wallet, pool.winner) = "Ok"

-----------------------------------------------------------------------------
(* C39: where escrowed value is burned *)

\* C39: across every sequence of operations escrowed value is burned only by
\* payout_winner (burn-fee share and rounding dust) and by claim_refund (the
\* creator's penalty); the stakes and donations left in a Cancelled pool are
\* refunded or swept to the treasury and burned by no other operation.  Only
\* value that entered through join_pool, create_pool and donate is considered:
\* no direct transfer to the escrow account has happened.
C39_BurnOnlyInPayoutAndPenalty ==
    [][ (ledger.spoofed = 0 /\ ledger'.spoofed = 0
            /\ ledger'.burned # ledger.burned)
        => \/ last' = "payout_winner"
           \/ /\ last' = "claim_refund"
              /\ pool.status = "Cancelled"
              /\ ledger'.burned - ledger.burned <= pool.amount \div CREATOR_PENALTY_DIVISOR
      ]_vars

-----------------------------------------------------------------------------
(* C40: RandomnessRevealed is transient *)

\* C40: RandomnessRevealed is never the persisted status of a pool: after
\* every completed operation the status is one of Open, Locked, Unlocked,
\* RandomnessCommitted, WinnerSelected, Ended, Cancelled or Closed;
\* select_winner writes RandomnessRevealed and WinnerSelected within one
\* transaction, so the former is seen only while select_winner is in flight.
C40_RandomnessRevealedIsTransient ==
    /\ (AtRest /\ Loaded) => pool.status \in PoolStatus \ {"RandomnessRevealed"}
    /\ pool.status = "RandomnessRevealed"
        => InFlight("select_winner", "revealed")

\* select_winner has completed: the status it leaves is WinnerSelected.
C40_Witness ==
    /\ AtRest
    /\ call.result.op \in {"select_winner", "select_winner_emergency"}
    /\ call.result.err = "Ok"
    /\ pool.status = "WinnerSelected"
    /\ pool.winner \in Joiners

=============================================================================
